---- MODULE Spec2Model ----
(***************************************************************************)
(* A model of gamescope-x11-client: the XWayland session handle            *)
(* (src/src/xwayland.rs), the atom-keyed property accessors                *)
(* (src/src/x11.rs), the atom catalogue (src/src/atoms.rs) and display     *)
(* discovery (src/src/lib.rs), together with the part of the X server they *)
(* talk to (property store, window tree, event delivery).                  *)
(***************************************************************************)
EXTENDS Integers, Sequences, FiniteSets, TLC

(***************************************************************************)
(* Bounds of the model.                                                    *)
(***************************************************************************)
\* longest value sequence a caller passes to set/append/prepend
MaxLen == 2
\* longest value the server is asked to store (append/prepend stop there)
MaxStored == 3
\* connections the server hands out in one run
MaxConn == 2
\* windows other clients create below the root
MaxWindows == 3
\* entries of the socket directory
MaxSockets == 2
\* property changes on a watched window
MaxEvents == 2

VARIABLES
    name,            \* XWayland.name
    conn,            \* XWayland.conn : Option<RustConnection>
    root_window_id,  \* XWayland.root_window_id
    nextConn,        \* server: id of the next connection it accepts
    open,            \* server: connections currently open
    children,        \* server: window tree, window |-> sequence of children
    props,           \* server: (window, atom) |-> [type, format, data]
    sockets,         \* the entries of /tmp/.X11-unix, None without the directory
    displays,        \* the X servers behind the sockets, by display name
    watch,           \* the listening thread, its connection and its channel
    last             \* the last call made and what it returned

sessVars == <<name, conn, root_window_id>>
srvVars  == <<nextConn, open, children, props>>
hostVars == <<sockets, displays>>
vars     == <<name, conn, root_window_id, nextConn, open, children, props,
              sockets, displays, watch, last>>

(***************************************************************************)
(* Rust's Option and Result.                                               *)
(***************************************************************************)
None      == [some |-> FALSE]
Some(x)   == [some |-> TRUE, val |-> x]
Ok(x)     == [tag |-> "Ok", val |-> x]
Err(e)    == [tag |-> "Err", val |-> e]
Panic     == [tag |-> "Panic"]
Unit      == "()"
IsOk(r)   == r.tag = "Ok"
IsErr(r)  == r.tag = "Err"
\* r is Ok(None) / Ok(Some(x)) / Ok(x)
IsOkNone(r)    == r.tag = "Ok" /\ ~r.val.some
IsOkSome(r, x) == r.tag = "Ok" /\ r.val.some /\ r.val.val = x
IsOkVal(r, x)  == r.tag = "Ok" /\ r.val = x

SeqsUpTo(S, n) == UNION {[1..i -> S] : i \in 0..n}

(***************************************************************************)
(* atoms.rs: GamescopeAtom and its strum Display table.                    *)
(***************************************************************************)
GamescopeAtomTable ==
    << <<"NetWmPID", "_NET_WM_PID">>,
       <<"Steam", "STEAM_BIGPICTURE">>,
       <<"InputCounter", "GAMESCOPE_INPUT_COUNTER">>,
       <<"FocusedApp", "GAMESCOPE_FOCUSED_APP">>,
       <<"FocusedAppGFX", "GAMESCOPE_FOCUSED_APP_GFX">>,
       <<"FocusedWindow", "GAMESCOPE_FOCUSED_WINDOW">>,
       <<"FocusableApps", "GAMESCOPE_FOCUSABLE_APPS">>,
       <<"FocusableWindows", "GAMESCOPE_FOCUSABLE_WINDOWS">>,
       <<"FocusDisplay", "GAMESCOPE_FOCUS_DISPLAY">>,
       <<"KeyboardFocusDisplay", "GAMESCOPE_KEYBOARD_FOCUS_DISPLAY">>,
       <<"CursorVisibleFeedback", "GAMESCOPE_CURSOR_VISIBLE_FEEDBACK">>,
       <<"ExternalOverlay", "GAMESCOPE_EXTERNAL_OVERLAY">>,
       <<"FPSLimit", "GAMESCOPE_FPS_LIMIT">>,
       <<"BlurMode", "GAMESCOPE_BLUR_MODE">>,
       <<"BlurRadius", "GAMESCOPE_BLUR_RADIUS">>,
       <<"AllowTearing", "GAMESCOPE_ALLOW_TEARING">>,
       <<"ModeControl", "GAMESCOPE_XWAYLAND_MODE_CONTROL">>,
       <<"XwaylandServerId", "GAMESCOPE_XWAYLAND_SERVER_ID">>,
       <<"BaselayerWindow", "GAMESCOPECTRL_BASELAYER_WINDOW">>,
       <<"BaselayerAppId", "GAMESCOPECTRL_BASELAYER_APPID">>,
       <<"RequestScreenshot", "GAMESCOPECTRL_REQUEST_SCREENSHOT">>,
       <<"DebugRequestScreenshot", "GAMESCOPECTRL_DEBUG_REQUEST_SCREENSHOT">>,
       <<"SteamGame", "STEAM_GAME">>,
       <<"SteamInputFocus", "STEAM_INPUT_FOCUS">>,
       <<"SteamOverlay", "STEAM_OVERLAY">>,
       <<"SteamNotification", "STEAM_NOTIFICATION">>,
       <<"SteamStreamingClient", "STEAM_STREAMING_CLIENT">>,
       <<"SteamStreamingClientVideo", "STEAM_STREAMING_CLIENT_VIDEO">> >>

GamescopeAtom == {GamescopeAtomTable[i][1] : i \in 1..Len(GamescopeAtomTable)}

\* the serialize string of each variant
Serialize ==
    [key \in GamescopeAtom |->
        GamescopeAtomTable[CHOOSE i \in 1..Len(GamescopeAtomTable) :
                               GamescopeAtomTable[i][1] = key][2]]

to_string_shared(key) ==
    IF key = "BlurRadius" THEN Serialize["FPSLimit"] ELSE Serialize[key]

\* GamescopeAtom::to_string (strum_macros::Display)
to_string(key) == Serialize[key]

(***************************************************************************)
(* The X server's atom table.  CARDINAL, STRING and WM_NAME are predefined *)
(* atoms of the protocol; every other name is interned on first use and    *)
(* keeps its id, so the table is an injection from names to ids.           *)
(***************************************************************************)
ATOM_CARDINAL == 6
ATOM_STRING   == 31
ATOM_WM_NAME  == 39
\* the last predefined atom of the core protocol (WM_TRANSIENT_FOR)
LastPredefinedAtom == 68

\* An atom name is a string of bytes (ISO Latin-1 by convention).  The name
\* Latin1AtomName stands for one with a byte above 127 outside any UTF-8
\* sequence, as another client may intern; every other name is ASCII.
Latin1AtomName == "CAF\\xC9"

AtomNames ==
    {"WM_NAME", Latin1AtomName}
        \cup {GamescopeAtomTable[i][2] : i \in 1..Len(GamescopeAtomTable)}

\* the id the server gives each name
AtomTable ==
    [key \in AtomNames |->
        IF key = "WM_NAME" THEN ATOM_WM_NAME
        ELSE IF key = Latin1AtomName THEN LastPredefinedAtom + Len(GamescopeAtomTable) + 1
        ELSE LastPredefinedAtom
             + (CHOOSE i \in 1..Len(GamescopeAtomTable) : GamescopeAtomTable[i][2] = key)]

\* server side of InternAtom(only_if_exists = false)
srv_intern_atom(key) == AtomTable[key]

\* server side of GetAtomName
srv_get_atom_name(atom) == CHOOSE n \in AtomNames : AtomTable[n] = atom

\* String::from_utf8 on the bytes of an atom name
from_utf8(atom_name) ==
    IF atom_name = Latin1AtomName THEN Err("FromUtf8Error") ELSE Ok(atom_name)

(***************************************************************************)
(* Faults of one call: the exchange an operation makes can fail at the     *)
(* atom-resolve step, at the request itself (it never reaches the server), *)
(* or while the reply or the confirmation is awaited ("check": the server  *)
(* has already processed the request).                                     *)
(***************************************************************************)
Faults == {"none", "intern", "request", "check"}

\* xproto::intern_atom(&conn, false, key)?.reply()?
intern_atom(key, fault) ==
    IF fault = "intern" THEN Err("ConnectionError") ELSE Ok(srv_intern_atom(key))

(***************************************************************************)
(* The X server's property requests (core protocol semantics).             *)
(***************************************************************************)
Windows == DOMAIN children

HasProp(P, w, a) == <<w, a>> \in DOMAIN P
PutProp(P, w, a, v) ==
    [x \in (DOMAIN P) \cup {<<w, a>>} |-> IF x = <<w, a>> THEN v ELSE P[x]]
DelProp(P, w, a) == [x \in (DOMAIN P) \ {<<w, a>>} |-> P[x]]

PropertyNotify(w, a) == [kind |-> "PropertyNotify", window |-> w, atom |-> a]

\* GetProperty(delete = false, window, property, type, long_offset = 0, long_length)
srv_get_property(P, window, atom, type, long_length) ==
    IF window \notin Windows THEN [ok |-> FALSE, error |-> "BadWindow"]
    ELSE IF ~HasProp(P, window, atom)
    THEN [ok |-> TRUE, type |-> 0, format |-> 0, value_len |-> 0, value |-> <<>>]
    ELSE LET p == P[<<window, atom>>] IN
         IF type # p.type
         THEN [ok |-> TRUE, type |-> p.type, format |-> p.format,
               value_len |-> 0, value |-> <<>>]
         ELSE LET perLong == 32 \div p.format
                  n == IF Len(p.data) \div perLong < long_length
                       THEN Len(p.data) ELSE long_length * perLong
              IN [ok |-> TRUE, type |-> p.type, format |-> p.format,
                  value_len |-> n, value |-> SubSeq(p.data, 1, n)]

\* ChangeProperty(mode, window, property, type, format, data)
srv_change_property(P, mode, window, atom, type, format, data) ==
    IF window \notin Windows
    THEN [ok |-> FALSE, error |-> "BadWindow", props |-> P, notify |-> <<>>]
    ELSE IF mode = "REPLACE" \/ ~HasProp(P, window, atom)
    THEN [ok |-> TRUE,
          props |-> PutProp(P, window, atom,
                            [type |-> type, format |-> format, data |-> data]),
          notify |-> <<PropertyNotify(window, atom)>>]
    ELSE LET p == P[<<window, atom>>] IN
         IF p.type # type \/ p.format # format
         THEN [ok |-> FALSE, error |-> "BadMatch", props |-> P, notify |-> <<>>]
         ELSE [ok |-> TRUE,
               props |-> PutProp(P, window, atom,
                                 [type |-> type, format |-> format,
                                  data |-> IF mode = "APPEND" THEN p.data \o data
                                           ELSE data \o p.data]),
               notify |-> <<PropertyNotify(window, atom)>>]

\* DeleteProperty(window, property)
srv_delete_property(P, window, atom) ==
    IF window \notin Windows
    THEN [ok |-> FALSE, error |-> "BadWindow", props |-> P, notify |-> <<>>]
    ELSE IF HasProp(P, window, atom)
    THEN [ok |-> TRUE, props |-> DelProp(P, window, atom),
          notify |-> <<PropertyNotify(window, atom)>>]
    ELSE [ok |-> TRUE, props |-> P, notify |-> <<>>]

(***************************************************************************)
(* x11.rs: the property accessors.  Each returns what the call returns     *)
(* (res), the server's property store after it (props), the requests it    *)
(* issued (nreq) and the events the server generated for it (notify).      *)
(***************************************************************************)
Outcome(res, P, nreq, notify) ==
    [res |-> res, props |-> P, nreq |-> nreq, notify |-> notify]

\* u32::max_value(), as far as the model's integers reach
U32_MAX == 2147483647

\* GetPropertyReply::value32(): the value as u32s, when the format is 32
value32(reply) == IF reply.format = 32 THEN Some(reply.value) ELSE None

get_property_keeps_empty(P, window_id, key, fault) ==
    LET atom == intern_atom(key, fault) IN
    IF IsErr(atom) THEN Outcome(atom, P, 1, <<>>)
    ELSE LET value == IF fault \in {"request", "check"}
                      THEN [ok |-> FALSE, error |-> "ConnectionError"]
                      ELSE srv_get_property(P, window_id, atom.val, ATOM_CARDINAL, U32_MAX)
         IN IF ~value.ok THEN Outcome(Err(value.error), P, 2, <<>>)
            ELSE IF value.format # 32 THEN Outcome(Ok(None), P, 2, <<>>)
            ELSE Outcome(Ok(Some(value.value)), P, 2, <<>>)

\* x11::get_property
get_property(P, window_id, key, fault) ==
    LET atom == intern_atom(key, fault) IN
    IF IsErr(atom) THEN Outcome(atom, P, 1, <<>>)
    ELSE LET value == IF fault \in {"request", "check"}
                      THEN [ok |-> FALSE, error |-> "ConnectionError"]
                      ELSE srv_get_property(P, window_id, atom.val, ATOM_CARDINAL, U32_MAX)
         IN IF ~value.ok THEN Outcome(Err(value.error), P, 2, <<>>)
            ELSE IF value.value_len = 0 THEN Outcome(Ok(None), P, 2, <<>>)
            ELSE IF ~value32(value).some THEN Outcome(Panic, P, 2, <<>>)
            ELSE Outcome(Ok(Some(value32(value).val)), P, 2, <<>>)

\* x11::has_property
has_property(P, window_id, key, fault) ==
    LET r == get_property(P, window_id, key, fault) IN
    IF IsOk(r.res) THEN [r EXCEPT !.res = Ok(r.res.val.some)] ELSE r

change_property_unchecked(P, window_id, key, values, mode, fault) ==
    LET atom == intern_atom(key, fault) IN
    IF IsErr(atom) THEN Outcome(atom, P, 1, <<>>)
    ELSE LET result == IF fault = "request"
                       THEN [ok |-> FALSE, error |-> "ConnectionError",
                             props |-> P, notify |-> <<>>]
                       ELSE srv_change_property(P, mode, window_id, atom.val,
                                                ATOM_CARDINAL, 32, values)
         IN IF fault = "request" THEN Outcome(Err(result.error), P, 2, <<>>)
            ELSE Outcome(Ok(Unit), result.props, 2, result.notify)

\* x11::change_property
change_property(P, window_id, key, values, mode, fault) ==
    LET atom == intern_atom(key, fault) IN
    IF IsErr(atom) THEN Outcome(atom, P, 1, <<>>)
    ELSE LET result == IF fault = "request"
                       THEN [ok |-> FALSE, error |-> "ConnectionError",
                             props |-> P, notify |-> <<>>]
                       ELSE srv_change_property(P, mode, window_id, atom.val,
                                                ATOM_CARDINAL, 32, values)
         IN IF ~result.ok THEN Outcome(Err(result.error), P, 2, <<>>)
            ELSE IF fault = "check"
            THEN Outcome(Err("ConnectionError"), result.props, 2, result.notify)
            ELSE Outcome(Ok(Unit), result.props, 2, result.notify)

set_property_appends(P, window_id, key, values, fault) ==
    change_property(P, window_id, key, values, "APPEND", fault)

\* x11::set_property
set_property(P, window_id, key, values, fault) ==
    change_property(P, window_id, key, values, "REPLACE", fault)

append_property_prepends(P, window_id, key, values, fault) ==
    change_property(P, window_id, key, values, "PREPEND", fault)

\* x11::append_property
append_property(P, window_id, key, values, fault) ==
    change_property(P, window_id, key, values, "APPEND", fault)

\* x11::prepend_property
prepend_property(P, window_id, key, values, fault) ==
    change_property(P, window_id, key, values, "PREPEND", fault)

remove_property_absent_is_error(P, window_id, key, fault) ==
    LET atom == intern_atom(key, fault) IN
    IF IsErr(atom) THEN Outcome(atom, P, 1, <<>>)
    ELSE LET result == IF fault = "request" \/ ~HasProp(P, window_id, atom.val)
                       THEN [ok |-> FALSE, error |-> "ConnectionError",
                             props |-> P, notify |-> <<>>]
                       ELSE srv_delete_property(P, window_id, atom.val)
         IN IF ~result.ok THEN Outcome(Err(result.error), P, 2, <<>>)
            ELSE IF fault = "check"
            THEN Outcome(Err("ConnectionError"), result.props, 2, result.notify)
            ELSE Outcome(Ok(Unit), result.props, 2, result.notify)

\* x11::remove_property
remove_property(P, window_id, key, fault) ==
    LET atom == intern_atom(key, fault) IN
    IF IsErr(atom) THEN Outcome(atom, P, 1, <<>>)
    ELSE LET result == IF fault = "request"
                       THEN [ok |-> FALSE, error |-> "ConnectionError",
                             props |-> P, notify |-> <<>>]
                       ELSE srv_delete_property(P, window_id, atom.val)
         IN IF ~result.ok THEN Outcome(Err(result.error), P, 2, <<>>)
            ELSE IF fault = "check"
            THEN Outcome(Err("ConnectionError"), result.props, 2, result.notify)
            ELSE Outcome(Ok(Unit), result.props, 2, result.notify)

(***************************************************************************)
(* xwayland.rs: XWayland, the session handle.                              *)
(***************************************************************************)
get_connection_unchecked == Ok(IF conn.some THEN conn.val ELSE 0)

\* XWayland::get_connection
get_connection == IF ~conn.some THEN Err("No connection") ELSE Ok(conn.val)

\* XWayland::has_xprop
has_xprop(window_id, key, fault) ==
    IF IsErr(get_connection) THEN Outcome(get_connection, props, 0, <<>>)
    ELSE has_property(props, window_id, to_string(key), fault)

\* XWayland::get_xprop
get_xprop(window_id, key, fault) ==
    IF IsErr(get_connection) THEN Outcome(get_connection, props, 0, <<>>)
    ELSE get_property(props, window_id, to_string(key), fault)

\* XWayland::get_one_xprop
get_one_xprop(window_id, key, fault) ==
    LET r == get_xprop(window_id, key, fault) IN
    IF ~IsOk(r.res) THEN r
    ELSE LET value == IF r.res.val.some THEN r.res.val.val ELSE <<>>
         IN [r EXCEPT !.res = Ok(IF value = <<>> THEN None ELSE Some(Head(value)))]

\* XWayland::set_xprop
set_xprop(window_id, key, values, fault) ==
    IF IsErr(get_connection) THEN Outcome(get_connection, props, 0, <<>>)
    ELSE set_property(props, window_id, to_string(key), values, fault)

\* XWayland::remove_xprop
remove_xprop(window_id, key, fault) ==
    IF IsErr(get_connection) THEN Outcome(get_connection, props, 0, <<>>)
    ELSE remove_property(props, window_id, to_string(key), fault)

(***************************************************************************)
(* The server the session talks to: one screen whose root window is        *)
(* RootWindow; window id 0 is the protocol's "no window".                  *)
(***************************************************************************)
RootWindow == 1
NoWindow   == 0

\* XWayland::new
new(display) ==
    /\ name = display
    /\ conn = None
    /\ root_window_id = 0

\* No listening thread: listen_for_window_property_changes has not returned
\* a handle.  pc is the thread's position in its loop, connected the state
\* of the connection the thread owns, queue the events the server has sent
\* on it, event the atom of the event in hand, chan the items in the
\* channel, recvd the items taken from the Receiver, rx whether the
\* Receiver still exists, log the names of the property changes made on
\* the watched window since the thread was spawned.
NoWatcher ==
    [pc |-> "none", window |-> 0, connected |-> FALSE, queue |-> <<>>, event |-> 0,
     chan |-> <<>>, recvd |-> <<>>, rx |-> TRUE, log |-> <<>>]

RECURSIVE EventNames(_)
EventNames(events) ==
    IF events = <<>> THEN <<>>
    ELSE IF Head(events).kind = "PropertyNotify"
         THEN <<srv_get_atom_name(Head(events).atom)>> \o EventNames(Tail(events))
         ELSE EventNames(Tail(events))

\* the server sends the PropertyNotify events of a request to the
\* connection that selected PROPERTY_CHANGE on the window
Deliver(wt, notify) ==
    LET mine == SelectSeq(notify, LAMBDA e : e.window = wt.window) IN
    IF wt.pc = "none" THEN wt
    ELSE [wt EXCEPT !.queue = IF wt.connected THEN @ \o mine ELSE @,
                    !.log = @ \o EventNames(mine)]

\* what a call leaves behind: the server's store, the events it caused and
\* the record of the call
Apply(op, args, fault, o) ==
    /\ props' = o.props
    /\ last' = [op |-> op, args |-> args, fault |-> fault,
                res |-> o.res, nreq |-> o.nreq, notify |-> o.notify]
    /\ watch' = Deliver(watch, o.notify)
    /\ UNCHANGED <<sessVars, nextConn, open, children, hostVars>>

Connect_keeps_old(reachable) ==
    IF ~reachable
    THEN /\ last' = [op |-> "connect", args |-> <<>>, fault |-> "connect",
                     res |-> Err("ConnectError"), nreq |-> 0, notify |-> <<>>]
         /\ UNCHANGED <<sessVars, srvVars, hostVars, watch>>
    ELSE /\ nextConn <= MaxConn
         /\ root_window_id' = RootWindow
         /\ conn' = Some(nextConn)
         /\ open' = open \cup {nextConn}
         /\ nextConn' = nextConn + 1
         /\ last' = [op |-> "connect", args |-> <<>>, fault |-> "none",
                     res |-> Ok(Unit), nreq |-> 0, notify |-> <<>>]
         /\ UNCHANGED <<name, children, props, hostVars, watch>>

Connect_clears_on_failure(reachable) ==
    IF ~reachable
    THEN /\ last' = [op |-> "connect", args |-> <<>>, fault |-> "connect",
                     res |-> Err("ConnectError"), nreq |-> 0, notify |-> <<>>]
         /\ conn' = None
         /\ open' = {}
         /\ UNCHANGED <<name, root_window_id, nextConn, children, props,
                        hostVars, watch>>
    ELSE /\ nextConn <= MaxConn
         /\ root_window_id' = RootWindow
         /\ conn' = Some(nextConn)
         /\ open' = (open \ (IF conn.some THEN {conn.val} ELSE {})) \cup {nextConn}
         /\ nextConn' = nextConn + 1
         /\ last' = [op |-> "connect", args |-> <<>>, fault |-> "none",
                     res |-> Ok(Unit), nreq |-> 0, notify |-> <<>>]
         /\ UNCHANGED <<name, children, props, hostVars, watch>>

Connect_resets_root_on_failure(reachable) ==
    IF ~reachable
    THEN /\ last' = [op |-> "connect", args |-> <<>>, fault |-> "connect",
                     res |-> Err("ConnectError"), nreq |-> 0, notify |-> <<>>]
         /\ root_window_id' = NoWindow
         /\ UNCHANGED <<name, conn, srvVars, hostVars, watch>>
    ELSE /\ nextConn <= MaxConn
         /\ root_window_id' = RootWindow
         /\ conn' = Some(nextConn)
         /\ open' = (open \ (IF conn.some THEN {conn.val} ELSE {})) \cup {nextConn}
         /\ nextConn' = nextConn + 1
         /\ last' = [op |-> "connect", args |-> <<>>, fault |-> "none",
                     res |-> Ok(Unit), nreq |-> 0, notify |-> <<>>]
         /\ UNCHANGED <<name, children, props, hostVars, watch>>

Connect_closes_watcher(reachable) ==
    IF ~reachable
    THEN /\ last' = [op |-> "connect", args |-> <<>>, fault |-> "connect",
                     res |-> Err("ConnectError"), nreq |-> 0, notify |-> <<>>]
         /\ UNCHANGED <<sessVars, srvVars, hostVars, watch>>
    ELSE /\ nextConn <= MaxConn
         /\ root_window_id' = RootWindow
         /\ conn' = Some(nextConn)
         /\ open' = (open \ (IF conn.some THEN {conn.val} ELSE {})) \cup {nextConn}
         /\ nextConn' = nextConn + 1
         /\ last' = [op |-> "connect", args |-> <<>>, fault |-> "none",
                     res |-> Ok(Unit), nreq |-> 0, notify |-> <<>>]
         /\ watch' = IF watch.pc = "none" THEN watch
                     ELSE [watch EXCEPT !.connected = FALSE, !.queue = <<>>]
         /\ UNCHANGED <<name, children, props, hostVars>>

\* XWayland::connect; reachable: whether x11rb::connect succeeds
Connect(reachable) ==
    IF ~reachable
    THEN /\ last' = [op |-> "connect", args |-> <<>>, fault |-> "connect",
                     res |-> Err("ConnectError"), nreq |-> 0, notify |-> <<>>]
         /\ UNCHANGED <<sessVars, srvVars, hostVars, watch>>
    ELSE /\ nextConn <= MaxConn
         /\ root_window_id' = RootWindow
         /\ conn' = Some(nextConn)
         /\ open' = (open \ (IF conn.some THEN {conn.val} ELSE {})) \cup {nextConn}
         /\ nextConn' = nextConn + 1
         /\ last' = [op |-> "connect", args |-> <<>>, fault |-> "none",
                     res |-> Ok(Unit), nreq |-> 0, notify |-> <<>>]
         /\ UNCHANGED <<name, children, props, hostVars, watch>>

HasXprop(w, k, f)       == Apply("has_xprop", <<w, k>>, f, has_xprop(w, k, f))
GetXprop(w, k, f)       == Apply("get_xprop", <<w, k>>, f, get_xprop(w, k, f))
SetXprop(w, k, v, f)    == Apply("set_xprop", <<w, k, v>>, f, set_xprop(w, k, v, f))
RemoveXprop(w, k, f)    == Apply("remove_xprop", <<w, k>>, f, remove_xprop(w, k, f))

\* the data a property holds, <<>> when there is none
Stored(P, w, a) == IF HasProp(P, w, a) THEN P[<<w, a>>].data ELSE <<>>

\* x11::append_property / x11::prepend_property, called with the session's
\* connection
AppendProperty(w, k, v, f) ==
    /\ conn.some
    /\ Len(Stored(props, w, srv_intern_atom(to_string(k)))) + Len(v) <= MaxStored
    /\ Apply("append_property", <<w, k, v>>, f,
             append_property(props, w, to_string(k), v, f))

PrependProperty(w, k, v, f) ==
    /\ conn.some
    /\ Len(Stored(props, w, srv_intern_atom(to_string(k)))) + Len(v) <= MaxStored
    /\ Apply("prepend_property", <<w, k, v>>, f,
             prepend_property(props, w, to_string(k), v, f))

\* another client of the server (the compositor, a game) writes a property
\* of a type or format of its own
OtherClientValues ==
    { [type |-> ATOM_STRING, format |-> 8, data |-> <<65>>],
      [type |-> ATOM_CARDINAL, format |-> 8, data |-> <<1>>] }

OtherClientChange(w, k, pv) ==
    /\ w \in Windows
    /\ props' = PutProp(props, w, srv_intern_atom(to_string(k)), pv)
    /\ last' = [op |-> "other_client", args |-> <<w, k>>, fault |-> "none",
                res |-> Ok(Unit), nreq |-> 0,
                notify |-> <<PropertyNotify(w, srv_intern_atom(to_string(k)))>>]
    /\ watch' = Deliver(watch, <<PropertyNotify(w, srv_intern_atom(to_string(k)))>>)
    /\ UNCHANGED <<sessVars, nextConn, open, children, hostVars>>

(***************************************************************************)
(* SpecProps: a session and the property accessors on one property.        *)
(***************************************************************************)
PropKeys    == {"FPSLimit"}
\* the (window, fault) pairs calls are made with: the root window over a
\* working transport, the root window with each fault, and no window
PropTargets == {<<RootWindow, f>> : f \in Faults} \cup {<<NoWindow, "none">>}
\* the (window, values, fault) triples writes are made with
PropWrites  == {<<RootWindow, v, "none">> : v \in SeqsUpTo({0, 1}, MaxLen)}
               \cup {<<t[1], <<0>>, t[2]>> : t \in PropTargets}
NoCall      == [op |-> "new", args |-> <<>>, fault |-> "none", res |-> Ok(Unit),
                nreq |-> 0, notify |-> <<>>]

\* a host with an empty socket directory
InitHost ==
    /\ sockets = Some(<<>>)
    /\ displays = <<>>
    /\ watch = NoWatcher

InitServer ==
    /\ nextConn = 1
    /\ open = {}
    /\ children = (RootWindow :> <<>>)
    /\ props = <<>>
    /\ InitHost

InitProps ==
    /\ new(":0")
    /\ InitServer
    /\ last = NoCall

NextProps ==
    \/ \E reachable \in BOOLEAN : Connect(reachable)
    \/ \E t \in PropTargets, k \in PropKeys :
          \/ HasXprop(t[1], k, t[2])
          \/ GetXprop(t[1], k, t[2])
          \/ RemoveXprop(t[1], k, t[2])
    \/ \E t \in PropWrites, k \in PropKeys :
          \/ SetXprop(t[1], k, t[2], t[3])
          \/ AppendProperty(t[1], k, t[2], t[3])
          \/ PrependProperty(t[1], k, t[2], t[3])
    \/ \E k \in PropKeys, pv \in OtherClientValues : OtherClientChange(RootWindow, k, pv)

SpecProps == InitProps /\ [][NextProps]_vars

(***************************************************************************)
(* xwayland.rs: the window tree walk.  lost is the window whose QueryTree  *)
(* exchange fails (NoWindow when none does); a window the server does not  *)
(* know is answered with BadWindow.                                        *)
(***************************************************************************)
\* XWayland::get_window_children
get_window_children(window_id, lost) ==
    IF IsErr(get_connection) THEN Outcome(get_connection, props, 0, <<>>)
    ELSE IF window_id = lost THEN Outcome(Err("ConnectionError"), props, 1, <<>>)
    ELSE IF window_id \notin Windows THEN Outcome(Err("BadWindow"), props, 1, <<>>)
    ELSE Outcome(Ok(children[window_id]), props, 1, <<>>)

RECURSIVE get_all_windows(_, _)
RECURSIVE for_child_in_children(_, _, _, _)

\* the mutant of the loop body: the child is pushed after its descendants
for_child_pushed_last(todo, leaves, nreq, lost) ==
    IF todo = <<>> THEN Outcome(Ok(leaves), props, nreq, <<>>)
    ELSE LET child == Head(todo)
             sub == get_all_windows(child, lost)
         IN IF ~IsOk(sub.res) THEN Outcome(sub.res, props, nreq + sub.nreq, <<>>)
            ELSE for_child_in_children(Tail(todo), (leaves \o sub.res.val) \o <<child>>,
                                       nreq + sub.nreq, lost)

\* XWayland::get_all_windows, the loop `for child in children`: todo are the
\* children still to visit, leaves the result so far
for_child_in_children(todo, leaves, nreq, lost) ==
    IF todo = <<>> THEN Outcome(Ok(leaves), props, nreq, <<>>)
    ELSE LET child == Head(todo)
             sub == get_all_windows(child, lost)
         IN IF ~IsOk(sub.res) THEN Outcome(sub.res, props, nreq + sub.nreq, <<>>)
            ELSE for_child_in_children(Tail(todo), Append(leaves, child) \o sub.res.val,
                                       nreq + sub.nreq, lost)

\* XWayland::get_all_windows
get_all_windows(window_id, lost) ==
    LET c == get_window_children(window_id, lost) IN
    IF ~IsOk(c.res) THEN c
    ELSE IF c.res.val = <<>> THEN Outcome(Ok(<<>>), props, c.nreq, <<>>)
    ELSE for_child_in_children(c.res.val, <<>>, c.nreq, lost)

GetWindowChildren(w, lost) ==
    Apply("get_window_children", <<w>>, IF lost = NoWindow THEN "none" ELSE "request",
          get_window_children(w, lost))
GetAllWindows(w, lost) ==
    Apply("get_all_windows", <<w>>, IF lost = NoWindow THEN "none" ELSE "request",
          get_all_windows(w, lost))

\* another client creates a window below parent: the server puts it on top
\* of the stacking order, which is the end of the QueryTree children list
\* another client sets the string property it names atom_name, WM_NAME or
\* one of its own, to a string of bytes
OtherClientSetString(w, atom_name, bytes) ==
    /\ w \in Windows
    /\ props' = PutProp(props, w, srv_intern_atom(atom_name),
                        [type |-> ATOM_STRING, format |-> 8, data |-> bytes])
    /\ last' = [op |-> "other_client", args |-> <<w, atom_name>>, fault |-> "none",
                res |-> Ok(Unit), nreq |-> 0,
                notify |-> <<PropertyNotify(w, srv_intern_atom(atom_name))>>]
    /\ watch' = Deliver(watch, <<PropertyNotify(w, srv_intern_atom(atom_name))>>)
    /\ UNCHANGED <<sessVars, nextConn, open, children, hostVars>>

OtherClientCreateWindow(parent) ==
    /\ parent \in Windows
    /\ Cardinality(Windows) <= MaxWindows
    /\ LET w == Cardinality(Windows) + 1 IN
       children' = [x \in Windows \cup {w} |->
                      IF x = w THEN <<>>
                      ELSE IF x = parent THEN Append(children[x], w)
                      ELSE children[x]]
    /\ last' = [op |-> "other_client", args |-> <<parent>>, fault |-> "none",
                res |-> Ok(Unit), nreq |-> 0, notify |-> <<>>]
    /\ UNCHANGED <<sessVars, nextConn, open, props, hostVars, watch>>


\* another client lowers window w: it moves to the bottom of the stacking
\* order, the front of its parent's children list
OtherClientLowerWindow(w) ==
    /\ \E parent \in Windows :
          /\ \E i \in 1..Len(children[parent]) : children[parent][i] = w
          /\ Head(children[parent]) # w
          /\ children' = [children EXCEPT ![parent] =
                            <<w>> \o SelectSeq(children[parent], LAMBDA x : x # w)]
    /\ last' = [op |-> "other_client", args |-> <<w>>, fault |-> "none",
                res |-> Ok(Unit), nreq |-> 0, notify |-> <<>>]
    /\ UNCHANGED <<sessVars, nextConn, open, props, hostVars, watch>>

(***************************************************************************)
(* x11.rs / xwayland.rs: names, owners and the remaining session calls.    *)
(***************************************************************************)
\* a request about window w fails when w is the window whose exchange is lost
FaultAt(w, lost) == IF w = lost THEN "request" ELSE "none"

\* bytes of a string property: 65 and 66 are ASCII letters, 255 is a byte
\* no UTF-8 text contains
Utf8Valid(bytes) == \A i \in 1..Len(bytes) : bytes[i] < 128

\* GetPropertyReply::value8(): the value as bytes, when the format is 8
value8(reply) == IF reply.format = 8 THEN Some(reply.value) ELSE None

\* x11::get_string_property
get_string_property(P, window_id, key, fault) ==
    LET atom == intern_atom(key, fault) IN
    IF IsErr(atom) THEN Outcome(atom, P, 1, <<>>)
    ELSE LET value == IF fault \in {"request", "check"}
                      THEN [ok |-> FALSE, error |-> "ConnectionError"]
                      ELSE srv_get_property(P, window_id, atom.val, ATOM_STRING, 8)
         IN IF ~value.ok THEN Outcome(Err(value.error), P, 2, <<>>)
            ELSE IF value.value_len = 0 THEN Outcome(Ok(None), P, 2, <<>>)
            ELSE IF ~value8(value).some THEN Outcome(Panic, P, 2, <<>>)
            ELSE IF ~Utf8Valid(value8(value).val) THEN Outcome(Err("FromUtf8Error"), P, 2, <<>>)
            ELSE Outcome(Ok(Some(value8(value).val)), P, 2, <<>>)

\* x11::get_window_name
x11_get_window_name(P, window_id, fault) ==
    get_string_property(P, window_id, "WM_NAME", fault)

\* XWayland::get_window_name
get_window_name(window_id, fault) ==
    IF IsErr(get_connection) THEN Outcome(get_connection, props, 0, <<>>)
    ELSE x11_get_window_name(props, window_id, fault)

\* the server's answer to XRes QueryClientIds(window, LOCAL_CLIENT_PID): the
\* pids of the client that created the window, none for an unknown window
srv_res_query_client_ids(window) ==
    IF window \in Windows /\ window # RootWindow THEN << <<1000 + window>> >> ELSE <<>>

\* the concatenation of a sequence of sequences
RECURSIVE Flatten(_)
Flatten(ss) == IF ss = <<>> THEN <<>> ELSE Head(ss) \o Flatten(Tail(ss))

\* x11::get_window_pids
get_window_pids(window_id, fault) ==
    IF fault \in {"request", "check"}
    THEN Outcome(Err("ConnectionError"), props, 1, <<>>)
    ELSE Outcome(Ok(Flatten(srv_res_query_client_ids(window_id))), props, 1, <<>>)

\* XWayland::get_pids_for_window
get_pids_for_window(window_id, fault) ==
    IF IsErr(get_connection) THEN Outcome(get_connection, props, 0, <<>>)
    ELSE get_window_pids(window_id, fault)

\* XWayland::get_root_window_id
get_root_window_id ==
    IF IsErr(get_connection) THEN Outcome(get_connection, props, 0, <<>>)
    ELSE Outcome(Ok(root_window_id), props, 0, <<>>)

\* XWayland::is_primary_instance
is_primary_instance(fault) == has_xprop(root_window_id, "KeyboardFocusDisplay", fault)

\* XWayland::get_window_pid
get_window_pid(window_id, fault) == get_one_xprop(window_id, "NetWmPID", fault)

\* XWayland::get_app_id
get_app_id(window_id, fault) == get_one_xprop(window_id, "SteamGame", fault)

\* XWayland::set_app_id
set_app_id(window_id, app_id, fault) == set_xprop(window_id, "SteamGame", <<app_id>>, fault)

\* XWayland::has_app_id
has_app_id(window_id, fault) == has_xprop(window_id, "SteamGame", fault)

\* Result<Option<u32>>::unwrap_or_default().unwrap_or_default()
unwrap_or_default2(res) == IF IsOk(res) /\ res.val.some THEN res.val.val ELSE 0

\* XWayland::get_windows_for_pid, the filter over all_windows
RECURSIVE filter_window_pid(_, _, _, _, _)
filter_window_pid(todo, pid, kept, nreq, unread) ==
    IF todo = <<>> THEN Outcome(Ok(kept), props, nreq, <<>>)
    ELSE LET window_id == Head(todo)
             r == get_window_pid(window_id, FaultAt(window_id, unread))
         IN IF r.res.tag = "Panic" THEN Outcome(Panic, props, nreq + r.nreq, <<>>)
            ELSE filter_window_pid(Tail(todo), pid,
                                   IF pid = unwrap_or_default2(r.res)
                                   THEN Append(kept, window_id) ELSE kept,
                                   nreq + r.nreq, unread)

\* XWayland::get_windows_for_pid; lost: the window whose QueryTree exchange
\* fails, unread: the window whose property fetch fails
get_windows_for_pid(pid, lost, unread) ==
    LET all_windows == get_all_windows(root_window_id, lost) IN
    IF ~IsOk(all_windows.res) THEN all_windows
    ELSE filter_window_pid(all_windows.res.val, pid, <<>>, all_windows.nreq, unread)

GetAppId(w, f)          == Apply("get_app_id", <<w>>, f, get_app_id(w, f))

(***************************************************************************)
(* xwayland.rs: impl Primary for XWayland.                                 *)
(***************************************************************************)
OVERLAY_APP_ID == 769

\* enum BlurMode
BlurModes == {"Off", "Cond", "Always"}

\* Option<T>::unwrap_or_default() under a Result already unwrapped by `?`
unwrap_or_default(opt, default) == IF opt.some THEN opt.val ELSE default

get_focusable_apps(fault) == get_xprop(root_window_id, "FocusableApps", fault)

is_focusable_app(window_id, fault) ==
    LET r == get_focusable_apps(fault) IN
    IF ~IsOk(r.res) THEN r
    ELSE [r EXCEPT !.res = Ok(IF r.res.val.some
                              THEN \E i \in 1..Len(r.res.val.val) : r.res.val.val[i] = window_id
                              ELSE FALSE)]

get_focusable_windows(fault) == get_xprop(root_window_id, "FocusableWindows", fault)

\* get_focusable_window_names, the loop `for window in focusable_windows`
RECURSIVE for_window_in_focusable(_, _, _, _)
for_window_in_focusable(todo, window_names, nreq, lost) ==
    IF todo = <<>> THEN Outcome(Ok(window_names), props, nreq, <<>>)
    ELSE LET window == Head(todo)
             window_name == x11_get_window_name(props, window, FaultAt(window, lost))
         IN IF ~IsOk(window_name.res)
            THEN Outcome(window_name.res, props, nreq + window_name.nreq, <<>>)
            ELSE for_window_in_focusable(Tail(todo),
                                         IF window_name.res.val.some
                                         THEN Append(window_names, window_name.res.val.val)
                                         ELSE window_names,
                                         nreq + window_name.nreq, lost)

\* lost: the window whose name fetch fails in transport
get_focusable_window_names(lost) ==
    IF IsErr(get_connection) THEN Outcome(get_connection, props, 0, <<>>)
    ELSE LET r == get_focusable_windows("none") IN
         IF ~IsOk(r.res) THEN r
         ELSE for_window_in_focusable(unwrap_or_default(r.res.val, <<>>), <<>>, r.nreq, lost)

get_focused_window(fault) == get_one_xprop(root_window_id, "FocusedWindow", fault)

get_focused_app(fault) == get_one_xprop(root_window_id, "FocusedApp", fault)

get_focused_app_gfx(fault) == get_one_xprop(root_window_id, "FocusedAppGFX", fault)

set_main_app(window_id, fault) ==
    set_xprop(window_id, "SteamGame", <<OVERLAY_APP_ID>>, fault)

set_input_focus(window_id, value, fault) ==
    set_xprop(window_id, "SteamInputFocus", <<value>>, fault)

is_overlay_focused_any_default(fault) ==
    LET r == get_focused_app(fault) IN
    IF ~IsOk(r.res) THEN r
    ELSE [r EXCEPT !.res = Ok(unwrap_or_default(r.res.val, OVERLAY_APP_ID) = OVERLAY_APP_ID)]

is_overlay_focused(fault) ==
    LET r == get_focused_app(fault) IN
    IF ~IsOk(r.res) THEN r
    ELSE [r EXCEPT !.res = Ok(unwrap_or_default(r.res.val, 0) = OVERLAY_APP_ID)]

get_overlay(window_id, fault) == get_one_xprop(window_id, "SteamOverlay", fault)

set_overlay(window_id, value, fault) ==
    set_xprop(window_id, "SteamOverlay", <<value>>, fault)

set_notification(window_id, value, fault) ==
    set_xprop(window_id, "SteamNotification", <<value>>, fault)

set_external_overlay(window_id, value, fault) ==
    set_xprop(window_id, "ExternalOverlay", <<value>>, fault)

set_fps_limit(fps, fault) == set_xprop(root_window_id, "FPSLimit", <<fps>>, fault)

get_fps_limit(fault) == get_one_xprop(root_window_id, "FPSLimit", fault)

\* the `match mode` of set_blur_mode
BlurModeEncoding(mode) ==
    CASE mode = "Off" -> 0
      [] mode = "Cond" -> 1
      [] mode = "Always" -> 2

set_blur_mode(mode, fault) ==
    set_xprop(root_window_id, "FPSLimit", <<BlurModeEncoding(mode)>>, fault)

get_blur_mode_rejects_unknown(fault) ==
    LET mode == get_one_xprop(root_window_id, "BlurMode", fault) IN
    IF ~IsOk(mode.res) THEN mode
    ELSE IF ~mode.res.val.some THEN [mode EXCEPT !.res = Ok(None)]
    ELSE [mode EXCEPT !.res =
            CASE mode.res.val.val = 0 -> Ok(Some("Off"))
              [] mode.res.val.val = 1 -> Ok(Some("Cond"))
              [] mode.res.val.val = 2 -> Ok(Some("Always"))
              [] OTHER -> Err("Invalid blur mode")]

\* Primary::get_blur_mode
get_blur_mode(fault) ==
    LET mode == get_one_xprop(root_window_id, "BlurMode", fault) IN
    IF ~IsOk(mode.res) THEN mode
    ELSE IF ~mode.res.val.some THEN [mode EXCEPT !.res = Ok(None)]
    ELSE [mode EXCEPT !.res =
            CASE mode.res.val.val = 0 -> Ok(Some("Off"))
              [] mode.res.val.val = 1 -> Ok(Some("Cond"))
              [] mode.res.val.val = 2 -> Ok(Some("Always"))
              [] OTHER -> Ok(None)]

set_blur_radius(radius, fault) == set_xprop(root_window_id, "BlurRadius", <<radius>>, fault)

set_allow_tearing(allow, fault) ==
    LET value == IF allow THEN 1 ELSE 0 IN
    set_xprop(root_window_id, "AllowTearing", <<value>>, fault)

get_baselayer_window(fault) == get_one_xprop(root_window_id, "BaselayerWindow", fault)

set_baselayer_window(window_id, fault) ==
    set_xprop(root_window_id, "BaselayerWindow", <<window_id>>, fault)

remove_baselayer_window(fault) == remove_xprop(root_window_id, "BaselayerWindow", fault)

request_screenshot(fault) == set_xprop(root_window_id, "RequestScreenshot", <<1>>, fault)

GetFocusedApp(f)          == Apply("get_focused_app", <<>>, f, get_focused_app(f))
SetMainApp(w, f)          == Apply("set_main_app", <<w>>, f, set_main_app(w, f))
IsOverlayFocused(f)       == Apply("is_overlay_focused", <<>>, f, is_overlay_focused(f))
SetFpsLimit(fps, f)       == Apply("set_fps_limit", <<fps>>, f, set_fps_limit(fps, f))
GetFpsLimit(f)            == Apply("get_fps_limit", <<>>, f, get_fps_limit(f))
SetBlurMode(m, f)         == Apply("set_blur_mode", <<m>>, f, set_blur_mode(m, f))
GetBlurMode(f)            == Apply("get_blur_mode", <<>>, f, get_blur_mode(f))
SetBlurRadius(r, f)       == Apply("set_blur_radius", <<r>>, f, set_blur_radius(r, f))
RequestScreenshot(f)      == Apply("request_screenshot", <<>>, f, request_screenshot(f))

(***************************************************************************)
(* lib.rs: display discovery.  File names and display names are sequences  *)
(* of characters.                                                          *)
(***************************************************************************)

\* str::strip_prefix('X')
strip_prefix_X(socket) ==
    IF socket # <<>> /\ Head(socket) = "X" THEN Some(Tail(socket)) ELSE None

\* str::parse::<u64>().is_err(): digits, after an optional plus sign
parse_u64_is_err(suffix) ==
    LET digits == IF suffix # <<>> /\ Head(suffix) = "+" THEN Tail(suffix) ELSE suffix
    IN ~(/\ digits # <<>>
         /\ \A i \in 1..Len(digits) :
               digits[i] \in {"0", "1", "2", "3", "4", "5", "6", "7", "8", "9"})

\* discover_x11_displays, the loop `for socket in sockets`
RECURSIVE for_socket_in_sockets(_, _)
for_socket_in_sockets(todo, display_names) ==
    IF todo = <<>> THEN Ok(display_names)
    ELSE LET suffix == strip_prefix_X(Head(todo)) IN
         IF ~suffix.some THEN Panic
         ELSE IF parse_u64_is_err(suffix.val)
         THEN for_socket_in_sockets(Tail(todo), display_names)
         ELSE for_socket_in_sockets(Tail(todo), Append(display_names, <<":">> \o suffix.val))

\* lib.rs discover_x11_displays
discover_x11_displays ==
    IF ~sockets.some THEN Outcome(Panic, props, 0, <<>>)
    ELSE Outcome(for_socket_in_sockets(sockets.val, <<>>), props, 0, <<>>)

\* x11rb::connect(Some(display)).is_ok()
Connectable(display) == display \in DOMAIN displays /\ displays[display].reachable

\* x11::is_gamescope_xwayland
is_gamescope_xwayland(P, root_window) ==
    has_property(P, root_window, to_string("CursorVisibleFeedback"), "none")

\* atoms::FOCUSABLE_WINDOWS
FOCUSABLE_WINDOWS == "GAMESCOPE_FOCUSABLE_WINDOWS"

\* discover_gamescope_displays, the loop `for display in x11_displays`;
\* gamescope_displays is the vector the function returns
RECURSIVE for_display_in_x11_displays(_, _, _)
for_display_in_x11_displays(todo, gamescope_displays, nreq) ==
    IF todo = <<>> THEN Outcome(Ok(gamescope_displays), props, nreq, <<>>)
    ELSE LET display == Head(todo) IN
         IF ~Connectable(display)
         THEN for_display_in_x11_displays(Tail(todo), gamescope_displays, nreq)
         ELSE LET r == get_property(displays[display].props, RootWindow,
                                    FOCUSABLE_WINDOWS, "none")
              IN IF r.res.tag = "Panic" THEN Outcome(Panic, props, nreq + r.nreq, <<>>)
                 ELSE for_display_in_x11_displays(Tail(todo), gamescope_displays,
                                                  nreq + r.nreq)

\* lib.rs discover_gamescope_displays
discover_gamescope_displays ==
    LET x11_displays == discover_x11_displays IN
    IF ~IsOk(x11_displays.res) THEN x11_displays
    ELSE for_display_in_x11_displays(x11_displays.res.val, <<>>, 0)

\* the host: sockets appear in the directory, the directory goes away,
\* servers start behind a socket and stop, leaving the socket stale
HostCall(what) ==
    [op |-> "host", args |-> <<what>>, fault |-> "none", res |-> Ok(Unit),
     nreq |-> 0, notify |-> <<>>]

SocketCreated(socket) ==
    /\ sockets.some
    /\ Len(sockets.val) < MaxSockets
    /\ \A i \in 1..Len(sockets.val) : sockets.val[i] # socket
    /\ sockets' = Some(Append(sockets.val, socket))
    /\ last' = HostCall("socket")
    /\ UNCHANGED <<sessVars, srvVars, displays, watch>>

DirectoryRemoved ==
    /\ sockets.some
    /\ sockets' = None
    /\ last' = HostCall("rmdir")
    /\ UNCHANGED <<sessVars, srvVars, displays, watch>>

ServerStarted(display, P) ==
    /\ display \notin DOMAIN displays
    /\ displays' = [d \in (DOMAIN displays) \cup {display} |->
                      IF d = display THEN [reachable |-> TRUE, props |-> P]
                      ELSE displays[d]]
    /\ last' = HostCall("start")
    /\ UNCHANGED <<sessVars, srvVars, sockets, watch>>

ServerStopped(display) ==
    /\ Connectable(display)
    /\ displays' = [displays EXCEPT ![display].reachable = FALSE]
    /\ last' = HostCall("stop")
    /\ UNCHANGED <<sessVars, srvVars, sockets, watch>>

(***************************************************************************)
(* SpecDiscover: discovery on a host whose sockets and servers come and    *)
(* go.                                                                     *)
(***************************************************************************)
DisplayNames == { <<":", "0">>, <<":", "1">> }

InitDiscover ==
    /\ new(":0")
    /\ InitServer
    /\ last = NoCall

NextDiscover ==
    \/ Apply("discover_x11_displays", <<>>, "none", discover_x11_displays)
    \/ Apply("discover_gamescope_displays", <<>>, "none", discover_gamescope_displays)
    \/ \E socket \in { <<"X", "0">>, <<"X", "1">>, <<"X", "a">>, <<"X">>,
                       <<"X", "+", "1">>, <<"Y", "0">> } :
          SocketCreated(socket)
    \/ DirectoryRemoved
    \* the root-window properties of a plain X server and of a compositor's
    \/ \E display \in DisplayNames,
          P \in { <<>>,
                  PutProp(<<>>, RootWindow,
                          srv_intern_atom(to_string("CursorVisibleFeedback")),
                          [type |-> ATOM_CARDINAL, format |-> 32, data |-> <<1>>]) } :
          ServerStarted(display, P)
    \/ \E display \in DisplayNames : ServerStopped(display)

SpecDiscover == InitDiscover /\ [][NextDiscover]_vars

(***************************************************************************)
(* xwayland.rs: listen_for_window_property_changes and the thread it       *)
(* spawns.  The model follows one listening thread.                        *)
(***************************************************************************)
\* mpsc Sender::send on a channel whose Receiver exists
tx_send_front(chan, property) == <<property>> \o chan
tx_send_twice(chan, property) == chan \o <<property, property>>
tx_send(chan, property) == Append(chan, property)

ListenForWindowPropertyChanges_unchecked(window_id, reachable) ==
    /\ watch.pc = "none"
    /\ IF ~reachable
       THEN /\ last' = [op |-> "listen_for_window_property_changes",
                        args |-> <<window_id>>, fault |-> "connect",
                        res |-> Err("ConnectError"), nreq |-> 0, notify |-> <<>>]
            /\ UNCHANGED watch
       ELSE /\ last' = [op |-> "listen_for_window_property_changes",
                        args |-> <<window_id>>, fault |-> "none",
                        res |-> Ok(Unit), nreq |-> 1, notify |-> <<>>]
            /\ watch' = [NoWatcher EXCEPT !.pc = "wait", !.window = window_id,
                                          !.connected = TRUE]
    /\ UNCHANGED <<sessVars, srvVars, hostVars>>

\* reachable: whether x11rb::connect succeeds.  change_window_attributes
\* with check() fails on a window the server does not have; the connection
\* is then dropped with the function's frame.
ListenForWindowPropertyChanges(window_id, reachable) ==
    /\ watch.pc = "none"
    /\ IF ~reachable
       THEN /\ last' = [op |-> "listen_for_window_property_changes",
                        args |-> <<window_id>>, fault |-> "connect",
                        res |-> Err("ConnectError"), nreq |-> 0, notify |-> <<>>]
            /\ UNCHANGED watch
       ELSE IF window_id \notin Windows
       THEN /\ last' = [op |-> "listen_for_window_property_changes",
                        args |-> <<window_id>>, fault |-> "none",
                        res |-> Err("Window"), nreq |-> 1, notify |-> <<>>]
            /\ UNCHANGED watch
       ELSE /\ last' = [op |-> "listen_for_window_property_changes",
                        args |-> <<window_id>>, fault |-> "none",
                        res |-> Ok(Unit), nreq |-> 1, notify |-> <<>>]
            /\ watch' = [NoWatcher EXCEPT !.pc = "wait", !.window = window_id,
                                          !.connected = TRUE]
    /\ UNCHANGED <<sessVars, srvVars, hostVars>>

WatcherWaitForEvent_sends_error ==
    /\ watch.pc = "wait"
    /\ IF ~watch.connected
       THEN watch' = [watch EXCEPT !.pc = "done", !.chan = Append(@, "ConnectionError")]
       ELSE /\ watch.queue # <<>>
            /\ IF Head(watch.queue).kind = "PropertyNotify"
               THEN watch' = [watch EXCEPT !.queue = Tail(@), !.pc = "name",
                                           !.event = Head(watch.queue).atom]
               ELSE watch' = [watch EXCEPT !.queue = Tail(@)]
    /\ UNCHANGED <<sessVars, srvVars, hostVars, last>>

\* the thread at conn.wait_for_event(): an error breaks the loop, an event
\* that is not a PropertyNotify continues it
WatcherWaitForEvent ==
    /\ watch.pc = "wait"
    /\ IF ~watch.connected
       THEN watch' = [watch EXCEPT !.pc = "done"]
       ELSE /\ watch.queue # <<>>
            /\ IF Head(watch.queue).kind = "PropertyNotify"
               THEN watch' = [watch EXCEPT !.queue = Tail(@), !.pc = "name",
                                           !.event = Head(watch.queue).atom]
               ELSE watch' = [watch EXCEPT !.queue = Tail(@)]
    /\ UNCHANGED <<sessVars, srvVars, hostVars, last>>

\* the thread from conn.get_atom_name(event.atom) to tx.send(property): each
\* unwrap() panics on failure and ends the thread: get_atom_name on a
\* closed connection, String::from_utf8 on a name that is not UTF-8, send
\* on a channel whose Receiver is gone.
WatcherSend ==
    /\ watch.pc = "name"
    /\ IF \/ ~watch.connected
          \/ ~IsOk(from_utf8(srv_get_atom_name(watch.event)))
          \/ ~watch.rx
       THEN watch' = [watch EXCEPT !.pc = "panicked", !.event = 0, !.queue = <<>>,
                                   !.connected = FALSE]
       ELSE watch' = [watch EXCEPT
                         !.pc = "wait", !.event = 0,
                         !.chan = tx_send(@, from_utf8(srv_get_atom_name(watch.event)).val)]
    /\ UNCHANGED <<sessVars, srvVars, hostVars, last>>

\* Receiver::recv: the oldest item in the channel; RecvError once the
\* channel is empty and the thread's closure, which owns the Sender, has
\* ended; otherwise the call blocks
rx_recv(wt) ==
    IF wt.chan # <<>> THEN Ok(Head(wt.chan))
    ELSE IF wt.pc \in {"done", "panicked"} THEN Err("RecvError")
    ELSE [tag |-> "Blocks"]

\* the caller takes an item from the Receiver
Recv ==
    /\ watch.rx
    /\ IsOk(rx_recv(watch))
    /\ watch' = [watch EXCEPT !.chan = Tail(@), !.recvd = Append(@, Head(watch.chan))]
    /\ UNCHANGED <<sessVars, srvVars, hostVars, last>>

\* the caller drops the Receiver
DropReceiver ==
    /\ watch.pc # "none"
    /\ watch.rx
    /\ watch' = [watch EXCEPT !.rx = FALSE, !.chan = <<>>]
    /\ UNCHANGED <<sessVars, srvVars, hostVars, last>>

\* the server closes the thread's connection
WatcherConnectionLost ==
    /\ watch.pc \in {"wait", "name"}
    /\ watch.connected
    /\ watch' = [watch EXCEPT !.connected = FALSE, !.queue = <<>>]
    /\ UNCHANGED <<sessVars, srvVars, hostVars, last>>

\* an event no mask selects (a keyboard mapping change) reaches the thread
MappingNotify == [kind |-> "MappingNotify"]
OtherEvent ==
    /\ watch.pc \in {"wait", "name"}
    /\ watch.connected
    /\ \A i \in 1..Len(watch.queue) : watch.queue[i] # MappingNotify
    /\ watch' = [watch EXCEPT !.queue = Append(@, MappingNotify)]
    /\ UNCHANGED <<sessVars, srvVars, hostVars, last>>

(***************************************************************************)
(* SpecTree: a session walking a window tree other clients build.          *)
(***************************************************************************)
\* window ids a run can hold, and the id of a window that does not exist
TreeWindows == 1..(MaxWindows + 1)

InitTree ==
    /\ new(":0")
    /\ InitServer
    /\ last = NoCall

NextTree ==
    \/ \E reachable \in BOOLEAN : Connect(reachable)
    \/ \E w \in TreeWindows \cup {NoWindow}, lost \in TreeWindows \cup {NoWindow} :
          \/ GetWindowChildren(w, lost)
          \/ GetAllWindows(w, lost)
    \/ \E parent \in TreeWindows : OtherClientCreateWindow(parent)
    \/ \E w \in TreeWindows : OtherClientLowerWindow(w)

SpecTree == InitTree /\ [][NextTree]_vars

(***************************************************************************)
(* Spec: the whole call surface of a session, every operation of XWayland  *)
(* and of Primary, on a server with the root window and one application    *)
(* window.  The notification and external-overlay flags are set on a       *)
(* window id the server does not know, which it answers with BadWindow.    *)
(***************************************************************************)
AppWindow == 2

InitMain ==
    /\ new(":0")
    /\ nextConn = 1
    /\ open = {}
    /\ children = (RootWindow :> <<AppWindow>>) @@ (AppWindow :> <<>>)
    /\ props = <<>>
    /\ InitHost
    /\ last = NoCall

\* the operations of XWayland
NextSession ==
    \/ \E reachable \in BOOLEAN : Connect(reachable)
    \/ Apply("get_root_window_id", <<>>, "none", get_root_window_id)
    \/ \E f \in {"none", "request"} : Apply("is_primary_instance", <<>>, f,
                                            is_primary_instance(f))
    \/ Apply("get_pids_for_window", <<AppWindow>>, "none",
             get_pids_for_window(AppWindow, "none"))
    \/ Apply("get_windows_for_pid", <<0>>, "none",
             get_windows_for_pid(0, NoWindow, NoWindow))
    \/ Apply("get_window_name", <<AppWindow>>, "none", get_window_name(AppWindow, "none"))
    \/ GetWindowChildren(RootWindow, NoWindow)
    \/ GetAllWindows(RootWindow, NoWindow)
    \/ HasXprop(RootWindow, "BaselayerWindow", "none")
    \/ GetXprop(RootWindow, "BaselayerWindow", "none")
    \/ Apply("get_one_xprop", <<RootWindow, "BaselayerWindow">>, "none",
             get_one_xprop(RootWindow, "BaselayerWindow", "none"))
    \/ SetXprop(RootWindow, "BaselayerWindow", <<AppWindow>>, "none")
    \/ RemoveXprop(RootWindow, "BaselayerWindow", "none")
    \/ Apply("get_window_pid", <<AppWindow>>, "none", get_window_pid(AppWindow, "none"))
    \/ GetAppId(AppWindow, "none")
    \/ Apply("set_app_id", <<AppWindow, OVERLAY_APP_ID>>, "none",
             set_app_id(AppWindow, OVERLAY_APP_ID, "none"))
    \/ Apply("has_app_id", <<AppWindow>>, "none", has_app_id(AppWindow, "none"))

\* the operations of Primary
NextPrimary ==
    \/ Apply("get_focusable_apps", <<>>, "none", get_focusable_apps("none"))
    \/ Apply("is_focusable_app", <<AppWindow>>, "none",
             is_focusable_app(AppWindow, "none"))
    \/ Apply("get_focusable_windows", <<>>, "none", get_focusable_windows("none"))
    \/ Apply("get_focusable_window_names", <<>>, "none",
             get_focusable_window_names(NoWindow))
    \/ Apply("get_focused_window", <<>>, "none", get_focused_window("none"))
    \/ GetFocusedApp("none")
    \/ Apply("get_focused_app_gfx", <<>>, "none", get_focused_app_gfx("none"))
    \/ SetMainApp(AppWindow, "none")
    \/ Apply("set_input_focus", <<AppWindow, 1>>, "none",
             set_input_focus(AppWindow, 1, "none"))
    \/ IsOverlayFocused("none")
    \/ Apply("get_overlay", <<AppWindow>>, "none", get_overlay(AppWindow, "none"))
    \/ Apply("set_overlay", <<AppWindow, 1>>, "none", set_overlay(AppWindow, 1, "none"))
    \/ Apply("set_notification", <<NoWindow, 1>>, "none",
             set_notification(NoWindow, 1, "none"))
    \/ Apply("set_external_overlay", <<NoWindow, 1>>, "none",
             set_external_overlay(NoWindow, 1, "none"))
    \/ SetFpsLimit(1, "none")
    \/ GetFpsLimit("none")
    \/ SetBlurMode("Cond", "none")
    \/ GetBlurMode("none")
    \/ SetBlurRadius(1, "none")
    \/ Apply("set_allow_tearing", <<TRUE>>, "none", set_allow_tearing(TRUE, "none"))
    \/ Apply("get_baselayer_window", <<>>, "none", get_baselayer_window("none"))
    \/ Apply("set_baselayer_window", <<AppWindow>>, "none",
             set_baselayer_window(AppWindow, "none"))
    \/ Apply("remove_baselayer_window", <<>>, "none", remove_baselayer_window("none"))
    \/ RequestScreenshot("none")

Next == NextSession \/ NextPrimary

Spec == InitMain /\ [][Next]_vars

(***************************************************************************)
(* SpecFocus: the focused-app property, which the compositor writes on the *)
(* root window, and the calls that read it.                                *)
(***************************************************************************)
NextFocus ==
    \/ \E reachable \in BOOLEAN : Connect(reachable)
    \* what the compositor stores in GAMESCOPE_FOCUSED_APP, and other values
    \/ \E pv \in {[type |-> ATOM_CARDINAL, format |-> 32, data |-> d] :
                    d \in {<<>>, <<0>>, <<OVERLAY_APP_ID>>, <<OVERLAY_APP_ID + 1>>,
                           <<OVERLAY_APP_ID, 0>>, <<0, OVERLAY_APP_ID>>}}
                  \cup OtherClientValues :
          OtherClientChange(RootWindow, "FocusedApp", pv)
    \/ \E f \in Faults :
          \/ GetFocusedApp(f)
          \/ IsOverlayFocused(f)
          \/ RemoveXprop(RootWindow, "FocusedApp", f)
    \/ SetMainApp(AppWindow, "none")
    \/ GetAppId(AppWindow, "none")

SpecFocus == InitMain /\ [][NextFocus]_vars

(***************************************************************************)
(* SpecBlur: the blur and frame-rate controls of Primary.                  *)
(***************************************************************************)
NextBlur ==
    \/ \E reachable \in BOOLEAN : Connect(reachable)
    \* what the compositor stores in GAMESCOPE_BLUR_MODE
    \/ \E x \in 0..3 :
          OtherClientChange(RootWindow, "BlurMode",
                            [type |-> ATOM_CARDINAL, format |-> 32, data |-> <<x>>])
    \/ \E f \in {"none", "request"} :
          \/ \E m \in BlurModes : SetBlurMode(m, f)
          \/ GetBlurMode(f)
          \/ \E fps \in {30, 60} : SetFpsLimit(fps, f)
          \/ GetFpsLimit(f)
    \/ SetBlurRadius(1, "none")
    \/ RemoveXprop(RootWindow, "BlurMode", "none")

SpecBlur == InitMain /\ [][NextBlur]_vars

(***************************************************************************)
(* SpecInstance: the keyboard-focus-display marker on the root window,     *)
(* written by the compositor, by another client or through the session,    *)
(* and the call that tests for it.                                         *)
(***************************************************************************)
NextInstance ==
    \/ \E reachable \in BOOLEAN : Connect(reachable)
    \/ \E pv \in OtherClientValues
                  \cup {[type |-> ATOM_CARDINAL, format |-> 32, data |-> d] :
                           d \in {<<>>, <<0>>, <<1>>}} :
          OtherClientChange(RootWindow, "KeyboardFocusDisplay", pv)
    \/ \E v \in {<<>>, <<1>>}, f \in {"none", "request"} :
          SetXprop(RootWindow, "KeyboardFocusDisplay", v, f)
    \/ \E f \in Faults :
          \/ RemoveXprop(RootWindow, "KeyboardFocusDisplay", f)
          \/ Apply("is_primary_instance", <<>>, f, is_primary_instance(f))

SpecInstance == InitMain /\ [][NextInstance]_vars

(***************************************************************************)
(* SpecNames: the focusable-window list, which the compositor writes on    *)
(* the root window, the names clients give their windows, and the call     *)
(* that resolves the list to names.  Window 4 is never created: the list   *)
(* can name a window that is gone.                                         *)
(***************************************************************************)
NextNames ==
    \/ Connect(TRUE)
    \/ /\ Cardinality(Windows) < 3
       /\ OtherClientCreateWindow(RootWindow)
    \/ \E ws \in {<<AppWindow>>, <<AppWindow, 3>>, <<3, AppWindow>>, <<4, AppWindow>>} :
          OtherClientChange(RootWindow, "FocusableWindows",
                            [type |-> ATOM_CARDINAL, format |-> 32, data |-> ws])
    \/ \E w \in {AppWindow, 3}, bytes \in {<<65>>, <<66>>, <<255>>} :
          OtherClientSetString(w, "WM_NAME", bytes)
    \/ \E lost \in {NoWindow, AppWindow, 3} :
          Apply("get_focusable_window_names", <<lost>>,
                IF lost = NoWindow THEN "none" ELSE "request",
                get_focusable_window_names(lost))

SpecNames == InitMain /\ [][NextNames]_vars

(***************************************************************************)
(* SpecWatch: a listening thread on one window while the session and       *)
(* another client change properties.  SpecWatchLive adds the scheduler:    *)
(* the thread is an OS thread, so a step it can take is eventually taken.  *)
(***************************************************************************)

NextWatchChange ==
    /\ Len(watch.log) < MaxEvents
    /\ \/ \E k \in {"FPSLimit", "BlurRadius"}, f \in {"none", "request"} :
             SetXprop(RootWindow, k, <<1>>, f)
       \/ \E k \in {"FPSLimit", "BlurRadius"} : RemoveXprop(RootWindow, k, "none")
       \/ \E w \in {RootWindow, AppWindow} :
             OtherClientChange(w, "FPSLimit", [type |-> ATOM_CARDINAL, format |-> 32,
                                               data |-> <<1>>])
       \/ OtherClientSetString(RootWindow, Latin1AtomName, <<65>>)

NextWatch ==
    \/ Connect(TRUE)
    \/ \E w \in {RootWindow, AppWindow, NoWindow}, reachable \in BOOLEAN :
          ListenForWindowPropertyChanges(w, reachable)
    \* XWayland::listen_for_property_changes
    \/ ListenForWindowPropertyChanges(root_window_id, TRUE)
    \/ NextWatchChange
    \/ WatcherWaitForEvent
    \/ WatcherSend
    \/ Recv
    \/ DropReceiver
    \/ WatcherConnectionLost
    \/ OtherEvent

SpecWatch == InitMain /\ [][NextWatch]_vars

SpecWatchLive ==
    SpecWatch /\ WF_vars(WatcherWaitForEvent) /\ WF_vars(WatcherSend)

\* the same with the session also reading properties while the thread runs
SpecWatchRead ==
    InitMain /\ [][NextWatch \/ \E k \in {"FPSLimit", "BlurMode"} :
                                  GetXprop(RootWindow, k, "none")]_vars

(***************************************************************************)
(* Claims on the property accessors (SpecProps).                           *)
(***************************************************************************)
\* the atom a key resolves to on the server
AtomOf(k) == srv_intern_atom(to_string(k))

\* C1 as stated: after a successful set_xprop(w, k, v) on a connected
\* session, get_xprop(w, k) issued next returns v, for every sequence v.
C1_RoundTripAnyValue ==
    (last.op = "set_xprop" /\ IsOk(last.res))
        => IsOkSome(get_xprop(last.args[1], last.args[2], "none").res, last.args[3])

\* C1 (amended): after a successful set_xprop(w, k, v) on a connected
\* session, get_xprop(w, k) issued next returns v when v is not empty, and
\* absent when v is empty, whatever the property held before the set.
C1_RoundTrip ==
    (last.op = "set_xprop" /\ IsOk(last.res))
        => LET r == get_xprop(last.args[1], last.args[2], "none").res IN
           IF last.args[3] = <<>> THEN IsOkNone(r) ELSE IsOkSome(r, last.args[3])

\* a set of a two-element value has just succeeded and reads back
C1_Witness ==
    /\ last.op = "set_xprop" /\ IsOk(last.res)
    /\ Len(last.args[3]) = 2
    /\ IsOkSome(get_xprop(last.args[1], last.args[2], "none").res, last.args[3])

\* C2: get_property of a property that is not set returns Ok(absent); a
\* successful get_property returns absent exactly when the server's reply
\* has value length 0; so a successful result is absent or a non-empty
\* sequence, never a present empty one (in the store now, and in every
\* get_xprop call made).
C2_AbsentNotEmpty ==
    /\ \A w \in Windows, k \in GamescopeAtom :
         LET r == get_property(props, w, to_string(k), "none").res
             reply == srv_get_property(props, w, AtomOf(k), ATOM_CARDINAL, U32_MAX)
         IN /\ ~HasProp(props, w, AtomOf(k)) => IsOkNone(r)
            /\ IsOk(r) => (IsOkNone(r) <=> reply.value_len = 0)
            /\ IsOk(r) => (IsOkNone(r) \/ Len(r.val.val) > 0)
    /\ (last.op = "get_xprop" /\ IsOk(last.res))
         => (IsOkNone(last.res) \/ Len(last.res.val.val) > 0)

\* a get_xprop has returned absent for a property the server holds with an
\* empty value
C2_Witness ==
    /\ last.op = "get_xprop" /\ IsOkNone(last.res)
    /\ HasProp(props, last.args[1], AtomOf(last.args[2]))
    /\ props[<<last.args[1], AtomOf(last.args[2])>>].data = <<>>

\* C3: when get_property returns the sequence p, a successful
\* append_property(w, k, v) makes get_property return p \o v, and a
\* successful prepend_property(w, k, v) makes it return v \o p.
C3_AppendPrepend ==
    [][ (last'.op \in {"append_property", "prepend_property"} /\ IsOk(last'.res))
        => LET w == last'.args[1]
               k == to_string(last'.args[2])
               v == last'.args[3]
               before == get_property(props, w, k, "none").res
               after == get_property(props', w, k, "none").res
           IN (IsOk(before) /\ before.val.some)
                => IsOkSome(after, IF last'.op = "append_property"
                                   THEN before.val.val \o v
                                   ELSE v \o before.val.val) ]_vars

\* an append of <<1>> to a property holding <<0, 0>> has succeeded
C3_Witness ==
    /\ last.op = "append_property" /\ IsOk(last.res)
    /\ last.args[3] = <<1>>
    /\ IsOkSome(get_property(props, last.args[1], to_string(last.args[2]), "none").res,
                <<0, 0, 1>>)

\* C4: on a connected session, remove_xprop(w, k) of an existing window
\* over a transport that does not fail returns Ok whether or not the
\* property was set, and get_xprop(w, k) issued next returns absent.
C4_RemoveSucceeds ==
    (last.op = "remove_xprop" /\ conn.some /\ last.fault = "none"
        /\ last.args[1] \in Windows)
        => /\ IsOk(last.res)
           /\ IsOkNone(get_xprop(last.args[1], last.args[2], "none").res)

\* a remove_xprop of a property that was not set (the server deleted
\* nothing, so it generated no event) has returned Ok
C4_Witness ==
    /\ last.op = "remove_xprop" /\ IsOk(last.res)
    /\ last.notify = <<>>

(***************************************************************************)
(* Claims on the window tree walk (SpecTree).                              *)
(***************************************************************************)
\* the elements of a sequence
Range(s) == {s[i] : i \in 1..Len(s)}

\* the windows below w in the server's tree, found as the least set closed
\* under "child of" (independently of the walk)
RECURSIVE Below(_, _)
Below(ws, n) ==
    IF n = 0 THEN ws
    ELSE Below(ws \cup UNION {Range(children[x]) : x \in ws}, n - 1)
Descendants(w) == Below(Range(children[w]), Cardinality(Windows))

\* the place of window w in sequence s
IndexOf(s, w) == CHOOSE i \in 1..Len(s) : s[i] = w

\* C5: a get_all_windows(R) whose requests all succeed returns every proper
\* descendant of R exactly once and never R, in depth-first pre-order: the
\* descendants of a window follow it immediately, siblings come in the
\* order QueryTree lists them, the walk makes one QueryTree per window
\* visited, and a window without children gives the empty sequence.
C5_PreOrder ==
    (last.op = "get_all_windows" /\ IsOk(last.res))
        => LET R == last.args[1]
               L == last.res.val
           IN /\ Range(L) = Descendants(R)
              /\ Len(L) = Cardinality(Descendants(R))
              /\ R \notin Range(L)
              /\ \A i \in 1..Len(L) :
                    LET d == Descendants(L[i]) IN
                    /\ i + Cardinality(d) <= Len(L)
                    /\ {L[j] : j \in (i + 1)..(i + Cardinality(d))} = d
              /\ \A x \in Windows : \A a, b \in 1..Len(children[x]) :
                    (a < b /\ children[x][a] \in Range(L))
                        => IndexOf(L, children[x][a]) < IndexOf(L, children[x][b])
              /\ children[R] = <<>> => L = <<>>
              /\ last.nreq = 1 + Len(L)

\* the walk of the root with children [3, 2], where 3 has the child [4],
\* has returned [3, 4, 2]: siblings in query order (not id order), the
\* grandchild right after its parent
C5_Witness ==
    /\ last.op = "get_all_windows" /\ IsOk(last.res)
    /\ last.args[1] = RootWindow
    /\ children[RootWindow] = <<3, 2>>
    /\ children[3] = <<4>>
    /\ last.res.val = <<3, 4, 2>>

(***************************************************************************)
(* Claims on the session and on Primary (Spec, SpecFocus, SpecBlur).       *)
(***************************************************************************)
\* C7: a successful is_overlay_focused() returns true exactly when
\* get_focused_app() returns 769: false for every other value and when the
\* property is absent; and it succeeds whenever get_focused_app does.
C7_OverlayFocused ==
    /\ (last.op = "is_overlay_focused" /\ IsOk(last.res))
          => (last.res.val <=> IsOkSome(get_focused_app("none").res, 769))
    /\ conn.some
          => LET a == get_focused_app("none").res
                 b == is_overlay_focused("none").res
             IN IsOk(a) => IsOkVal(b, a.val.some /\ a.val.val = 769)

\* is_overlay_focused has returned true
C7_Witness ==
    /\ last.op = "is_overlay_focused"
    /\ IsOkVal(last.res, TRUE)

\* a call on the session failed with the not-connected error, issued no
\* request and changed nothing on the server
NotConnected(o) ==
    /\ IsErr(o.res)
    /\ o.res.val = "No connection"
    /\ o.nreq = 0
    /\ o.props = props
    /\ o.notify = <<>>

\* every property and tree operation of XWayland, over its arguments
SessionCallsNotConnected ==
    /\ NotConnected(get_root_window_id)
    /\ \A f \in Faults : NotConnected(is_primary_instance(f))
    /\ \A w \in Windows \cup {NoWindow} :
          /\ \A f \in Faults :
                /\ NotConnected(get_pids_for_window(w, f))
                /\ NotConnected(get_window_name(w, f))
                /\ NotConnected(get_window_pid(w, f))
                /\ NotConnected(get_app_id(w, f))
                /\ NotConnected(set_app_id(w, 1, f))
                /\ NotConnected(has_app_id(w, f))
                /\ \A k \in GamescopeAtom :
                      /\ NotConnected(has_xprop(w, k, f))
                      /\ NotConnected(get_xprop(w, k, f))
                      /\ NotConnected(get_one_xprop(w, k, f))
                      /\ NotConnected(remove_xprop(w, k, f))
                      /\ \A v \in {<<>>, <<1>>} : NotConnected(set_xprop(w, k, v, f))
          /\ \A lost \in Windows \cup {NoWindow} :
                /\ NotConnected(get_window_children(w, lost))
                /\ NotConnected(get_all_windows(w, lost))
                /\ NotConnected(get_windows_for_pid(w, lost, NoWindow))

\* every operation of Primary, over its arguments
PrimaryCallsNotConnected ==
    /\ \A lost \in Windows \cup {NoWindow} : NotConnected(get_focusable_window_names(lost))
    /\ \A f \in Faults :
          /\ NotConnected(get_focusable_apps(f))
          /\ NotConnected(get_focusable_windows(f))
          /\ NotConnected(get_focused_window(f))
          /\ NotConnected(get_focused_app(f))
          /\ NotConnected(get_focused_app_gfx(f))
          /\ NotConnected(is_overlay_focused(f))
          /\ NotConnected(set_fps_limit(1, f))
          /\ NotConnected(get_fps_limit(f))
          /\ \A m \in BlurModes : NotConnected(set_blur_mode(m, f))
          /\ NotConnected(get_blur_mode(f))
          /\ NotConnected(set_blur_radius(1, f))
          /\ \A a \in BOOLEAN : NotConnected(set_allow_tearing(a, f))
          /\ NotConnected(get_baselayer_window(f))
          /\ NotConnected(remove_baselayer_window(f))
          /\ NotConnected(request_screenshot(f))
          /\ \A w \in Windows \cup {NoWindow} :
                /\ NotConnected(is_focusable_app(w, f))
                /\ NotConnected(set_main_app(w, f))
                /\ NotConnected(set_input_focus(w, 1, f))
                /\ NotConnected(get_overlay(w, f))
                /\ NotConnected(set_overlay(w, 1, f))
                /\ NotConnected(set_notification(w, 1, f))
                /\ NotConnected(set_external_overlay(w, 1, f))
                /\ NotConnected(set_baselayer_window(w, f))

\* C9: while connect has never succeeded, every property and tree
\* operation of the session and every operation of Primary fails with the
\* not-connected error and issues no request, and a step that makes such a
\* call leaves the session and the server as they were.
C9_NotConnected ==
    [][ ~conn.some
          => /\ SessionCallsNotConnected
             /\ PrimaryCallsNotConnected
             /\ last'.op # "connect"
                   => /\ IsErr(last'.res)
                      /\ last'.res.val = "No connection"
                      /\ last'.nreq = 0
                      /\ UNCHANGED <<sessVars, srvVars, hostVars, watch>> ]_vars

\* get_windows_for_pid was called on a session that never connected and
\* failed with the not-connected error
C9_Witness ==
    /\ ~conn.some
    /\ root_window_id = 0
    /\ last.op = "get_windows_for_pid"
    /\ IsErr(last.res)
    /\ last.res.val = "No connection"
    /\ last.nreq = 0

\* C10 as stated: after a successful set_blur_mode(m) the BlurMode atom of
\* the root window holds the encoding of m, and get_blur_mode() called next
\* returns m.
C10_BlurModeRoundTrip ==
    (last.op = "set_blur_mode" /\ IsOk(last.res))
        => /\ IsOkSome(get_xprop(root_window_id, "BlurMode", "none").res,
                       <<BlurModeEncoding(last.args[1])>>)
           /\ IsOkSome(get_blur_mode("none").res, last.args[1])

(***************************************************************************)
(* Claims on discovery (SpecDiscover).                                     *)
(***************************************************************************)
\* the candidate displays that connect and whose root window carries the
\* compositor's marker property, in candidate order
GamescopeDisplays(candidates) ==
    SelectSeq(candidates,
              LAMBDA d : /\ Connectable(d)
                         /\ IsOkVal(is_gamescope_xwayland(displays[d].props, RootWindow).res,
                                    TRUE))

\* C6: a discover_gamescope_displays() that returns, returns exactly the
\* candidate displays that connect and carry the marker property: a display
\* that does not connect or has no marker is left out, one that connects
\* and has the marker is included.
C6_DiscoverSessions ==
    (last.op = "discover_gamescope_displays" /\ IsOk(last.res))
        => last.res.val = GamescopeDisplays(discover_x11_displays.res.val)

(***************************************************************************)
(* Claims on the listening thread (SpecWatchLive).                         *)
(***************************************************************************)
\* the thread is in its loop with its connection open and the Receiver held
Running == watch.pc \in {"wait", "name"} /\ watch.connected /\ watch.rx

\* the items put into the channel so far, in order
Delivered == watch.recvd \o watch.chan

\* the names of the events the thread has yet to send, in order
Pending ==
    (IF watch.pc = "name" THEN <<srv_get_atom_name(watch.event)>> ELSE <<>>)
        \o EventNames(watch.queue)

\* C8: while the listening thread runs, the items delivered through its
\* channel, followed by those of the events it has yet to handle, are
\* exactly the names of the properties changed on the watched window since
\* it started, one item per change and in the order of the changes; and
\* the item of each change is eventually delivered unless the thread stops.
C8_OneItemPerWrite ==
    /\ [](Running => Delivered \o Pending = watch.log)
    /\ \A n \in 1..MaxEvents :
          (Len(watch.log) >= n) ~> (Len(Delivered) >= n \/ ~Running)

\* two changes of different properties were made after the thread started
\* and both items were taken from the channel, in the order of the changes
C8_Witness ==
    /\ Running
    /\ Len(watch.log) = 2
    /\ watch.log[1] # watch.log[2]
    /\ watch.recvd = watch.log
    /\ last.op = "set_xprop"

(***************************************************************************)
(* Claims on the session's window queries (Spec).                          *)
(***************************************************************************)
\* the window carries _NET_WM_PID and its first element is pid
HasPid(w, pid) ==
    /\ HasProp(props, w, srv_intern_atom(to_string("NetWmPID")))
    /\ LET p == props[<<w, srv_intern_atom(to_string("NetWmPID"))>>]
       IN p.data # <<>> /\ p.data[1] = pid

\* C11: a get_windows_for_pid(pid) that returns, returns exactly the
\* descendants of the root window that carry _NET_WM_PID with first element
\* pid, in tree-walk order, for every pid including 0; a window without the
\* property is never in the result.
C11_WindowsForPid ==
    (last.op = "get_windows_for_pid" /\ IsOk(last.res))
        => last.res.val = SelectSeq(get_all_windows(root_window_id, NoWindow).res.val,
                                    LAMBDA w : HasPid(w, last.args[1]))

(***************************************************************************)
(* Claims on the names of the focusable windows (SpecNames).               *)
(***************************************************************************)
\* the focusable list as the call reads it
FocusableList == unwrap_or_default(get_focusable_windows("none").res.val, <<>>)

\* the name of window w resolves when the fetch of window `lost` fails
NameResolves(w, lost) ==
    LET r == x11_get_window_name(props, w, FaultAt(w, lost)).res
    IN IsOk(r) /\ r.val.some

\* the names of the windows of ws whose name resolves, in the order of ws
ResolvedNames(ws, lost) ==
    LET kept == SelectSeq(ws, LAMBDA w : NameResolves(w, lost))
    IN [i \in 1..Len(kept) |-> x11_get_window_name(props, kept[i], "none").res.val.val]

\* C12: on a connected session whose focusable list can be read,
\* get_focusable_window_names() succeeds and returns, in list order, the
\* names of the listed windows whose name resolves; a window whose name is
\* absent, cannot be fetched or cannot be decoded is left out and neither
\* fails the call nor drops the other names.
C12_NamesOmitUnresolved ==
    (last.op = "get_focusable_window_names" /\ conn.some)
        => /\ IsOk(last.res)
           /\ last.res.val = ResolvedNames(FocusableList, last.args[1])

\* the thread, holding an event, finishes the iteration in this step
IterationEnds == watch.pc = "name" /\ watch'.pc # "name"

\* the name of the event in hand can be fetched and decoded
EventNameResolves ==
    watch.connected /\ IsOk(from_utf8(srv_get_atom_name(watch.event)))

\* the thread takes a PropertyNotify event from its connection in this step
TakesPropertyNotify ==
    /\ watch.pc = "wait" /\ watch.connected /\ watch.queue # <<>>
    /\ Head(watch.queue).kind = "PropertyNotify"
    /\ watch'.connected /\ watch'.queue = Tail(watch.queue)

\* C13 as stated: while the Receiver is alive, every property-change event
\* the thread receives gets one item pushed, in the order received, and
\* nothing else is pushed.
C13_PushPerEvent ==
    [][ (watch.rx /\ watch'.rx)
          => /\ TakesPropertyNotify
                   => watch'.pc = "name" /\ watch'.event = Head(watch.queue).atom
             /\ Delivered' = IF IterationEnds
                             THEN Append(Delivered, srv_get_atom_name(watch.event))
                             ELSE Delivered ]_vars

\* C13: while the Receiver is alive, every property-change event the thread
\* receives is taken in hand in the order received, each event in hand
\* whose atom name is fetched and decoded gets exactly one item pushed at
\* the back of the channel, and no other step pushes anything: not an event
\* of another kind and not an event whose name does not resolve.
C13_PushPerResolvedEvent ==
    [][ (watch.rx /\ watch'.rx)
          => /\ TakesPropertyNotify
                   => watch'.pc = "name" /\ watch'.event = Head(watch.queue).atom
             /\ Delivered' = IF IterationEnds /\ EventNameResolves
                             THEN Append(Delivered, srv_get_atom_name(watch.event))
                             ELSE Delivered ]_vars

\* two items for two different events wait in the channel in the order of
\* the events, and an event of another kind has been passed over
C13_Witness ==
    /\ Running
    /\ watch.pc = "wait"
    /\ Len(watch.chan) = 2
    /\ watch.chan[1] # watch.chan[2]
    /\ watch.chan = watch.log
    /\ watch.queue = <<>>

\* C14: when wait_for_event fails on a closed connection the thread leaves
\* its loop in that step without putting anything in the channel, the
\* thread does eventually end, and once it has ended the Receiver yields
\* the items already sent, oldest first, and then the channel's closure.
C14_SilentExit ==
    /\ [][ (watch.pc = "wait" /\ ~watch.connected /\ watch'.pc # "wait")
             => /\ watch'.pc = "done"
                /\ watch'.chan = watch.chan
                /\ watch'.recvd = watch.recvd ]_vars
    /\ (watch.pc = "wait" /\ ~watch.connected) ~> (watch.pc = "done")
    /\ []((watch.pc = "done" /\ watch.rx)
             => IF watch.chan # <<>> THEN IsOkVal(rx_recv(watch), Head(watch.chan))
                ELSE IsErr(rx_recv(watch)))

\* the thread has ended after a failed wait, and the caller, having taken
\* the item sent before, finds the channel closed
C14_Witness ==
    /\ watch.pc = "done"
    /\ watch.rx
    /\ Len(watch.recvd) = 1
    /\ watch.chan = <<>>
    /\ IsErr(rx_recv(watch))

(***************************************************************************)
(* Claims on the session's connection and accessors (SpecProps).           *)
(***************************************************************************)
\* C15: a connect() that succeeds on a session already connected replaces
\* the connection: afterwards the session holds the new connection and no
\* other, the one it held before has been closed, and the stored root
\* window is the root of the server the new connection reached.
C15_ReconnectReplaces ==
    [][ (conn.some /\ last'.op = "connect" /\ IsOk(last'.res))
          => /\ conn'.some
             /\ conn'.val # conn.val
             /\ conn'.val \notin open
             /\ conn.val \notin open'
             /\ open' = {conn'.val}
             /\ root_window_id' = RootWindow ]_vars

\* the session has connected twice and holds the second connection only
C15_Witness ==
    /\ last.op = "connect" /\ IsOk(last.res)
    /\ conn.some /\ conn.val = 2
    /\ open = {2}

(***************************************************************************)
(* Claims on the primary-instance test (SpecInstance).                     *)
(***************************************************************************)
\* C16: on a connected session over a working transport,
\* is_primary_instance() returns true exactly when the root window
\* currently carries GAMESCOPE_KEYBOARD_FOCUS_DISPLAY, read afresh at each
\* call.
C16_PrimaryIffPresent ==
    (last.op = "is_primary_instance" /\ last.fault = "none" /\ conn.some)
        => IsOkVal(last.res,
                   HasProp(props, root_window_id,
                           srv_intern_atom(to_string("KeyboardFocusDisplay"))))

(***************************************************************************)
(* Claims on failing exchanges (SpecProps).                                *)
(***************************************************************************)
\* the write operations of a step and the mode each one requests
WriteOps == {"set_xprop", "append_property", "prepend_property", "remove_xprop"}

\* the server answers the request of the call (op, w, k) with an error:
\* the window does not exist, or an append or prepend meets a property of
\* another type or format
Rejects(P, op, w, k) ==
    \/ w \notin Windows
    \/ /\ op \in {"append_property", "prepend_property"}
       /\ HasProp(P, w, AtomOf(k))
       /\ (P[<<w, AtomOf(k)>>].type # ATOM_CARDINAL \/ P[<<w, AtomOf(k)>>].format # 32)

\* the store after the server has processed the write (op, args)
Applied(P, op, args) ==
    LET w == args[1]
        a == AtomOf(args[2])
    IN IF op = "remove_xprop" THEN DelProp(P, w, a)
       ELSE PutProp(P, w, a,
                    [type |-> ATOM_CARDINAL, format |-> 32,
                     data |-> CASE op = "set_xprop" -> args[3]
                                [] op = "append_property" -> Stored(P, w, a) \o args[3]
                                [] OTHER -> args[3] \o Stored(P, w, a)])

\* a get_xprop whose atom-resolve or fetch exchange fails returns an error,
\* never absent
FetchFailureIsError ==
    (last.op \in {"get_xprop", "has_xprop"} /\ last.fault # "none") => IsErr(last.res)

\* C17: when the server rejects or the transport fails a
\* set/append/prepend/remove request, the call returns an error and the
\* store is the same as before the call; a failed resolve or fetch in
\* get_property is returned as an error, never as absent.
C17_FailureLeavesValue ==
    [][ /\ (last'.op \in WriteOps
              /\ (last'.fault # "none"
                    \/ Rejects(props, last'.op, last'.args[1], last'.args[2])))
            => (IsErr(last'.res) /\ props' = props)
        /\ FetchFailureIsError' ]_vars

\* C17 (amended): such a call returns an error; the store is the same as
\* before when the server rejects the request or the transport fails before
\* the request reaches the server; when the transport fails only while the
\* confirmation is awaited, the server has processed the request and the
\* store is what a successful call would have left.
C17_FailureIsError ==
    [][ /\ (last'.op \in WriteOps
              /\ (last'.fault # "none"
                    \/ Rejects(props, last'.op, last'.args[1], last'.args[2])))
            => /\ IsErr(last'.res)
               /\ \/ props' = props
                  \/ /\ last'.fault = "check"
                     /\ conn.some
                     /\ ~Rejects(props, last'.op, last'.args[1], last'.args[2])
                     /\ props' = Applied(props, last'.op, last'.args)
        /\ FetchFailureIsError' ]_vars

\* an append to a property another client stored with format 8 has been
\* rejected by the server and returned as an error
C17_Witness ==
    /\ last.op = "append_property" /\ last.fault = "none"
    /\ IsErr(last.res) /\ last.res.val = "BadMatch"
    /\ HasProp(props, RootWindow, AtomOf("FPSLimit"))

(***************************************************************************)
(* Claims on the watcher's failure paths (SpecWatch).                      *)
(***************************************************************************)
\* C18: while the Receiver is alive, an iteration whose event name cannot
\* be fetched or decoded pushes nothing and returns the thread to
\* wait_for_event, where later events are still taken and pushed.
C18_BadNameSkipsOnlySend ==
    [][ (IterationEnds /\ watch.rx /\ ~EventNameResolves)
          => (watch'.pc = "wait" /\ watch'.chan = watch.chan) ]_vars

\* a call of listen_for_window_property_changes returns in this step
ListenReturns ==
    last'.op = "listen_for_window_property_changes" /\ last' # last

\* C19: a listen call whose own connection cannot be opened or whose
\* registration on the window is rejected returns an error and leaves no
\* thread and no channel behind; a thread and a channel come into being
\* only in a listen call that returns Ok, on a window the server has
\* accepted the registration for.
C19_ListenFailsFast ==
    [][ /\ ListenReturns
            => IF last'.args[1] \in Windows /\ last'.fault = "none"
               THEN /\ IsOk(last'.res)
                    /\ watch.pc = "none" /\ watch'.pc = "wait"
                    /\ watch'.window = last'.args[1]
                    /\ watch'.rx /\ watch'.chan = <<>>
               ELSE IsErr(last'.res) /\ watch' = watch /\ watch.pc = "none"
        /\ (watch.pc = "none" /\ watch'.pc # "none")
            => (ListenReturns /\ IsOk(last'.res) /\ last'.args[1] \in Windows) ]_vars

\* a listen on a window the server does not have has returned the
\* registration's error and no thread runs
C19_Witness ==
    /\ last.op = "listen_for_window_property_changes"
    /\ IsErr(last.res) /\ last.fault = "none"
    /\ last.args[1] \notin Windows
    /\ watch = NoWatcher

(***************************************************************************)
(* Claims on the candidate displays (SpecDiscover).                        *)
(***************************************************************************)
\* a socket entry named by the prefix X and a non-negative integer
IsDisplaySocket(socket) ==
    /\ Len(socket) >= 2
    /\ socket[1] = "X"
    /\ \A i \in 2..Len(socket) :
          socket[i] \in {"0", "1", "2", "3", "4", "5", "6", "7", "8", "9"}

\* ":N" for each such entry of the directory, in directory order
CandidateDisplays(entries) ==
    LET kept == SelectSeq(entries, IsDisplaySocket)
    IN [i \in 1..Len(kept) |-> <<":">> \o Tail(kept[i])]

\* C20: with the socket directory in place, discover_x11_displays() returns
\* ":N" for every entry named X followed by a non-negative integer N and
\* passes over every other entry without failing.
C20_CandidatesSkipMalformed ==
    (last.op = "discover_x11_displays" /\ sockets.some)
        => IsOkVal(last.res, CandidateDisplays(sockets.val))

(***************************************************************************)
(* Claims on the blur and frame-rate controls (SpecBlur).                  *)
(***************************************************************************)
\* C21: on a connected session over a working transport, get_blur_mode()
\* returns Off, Cond or Always when the first element of GAMESCOPE_BLUR_MODE
\* on the root window is 0, 1 or 2, and Ok(none) when the property is
\* absent or its first element is another integer; it is never an error.
C21_BlurModeDecoding ==
    (last.op = "get_blur_mode" /\ conn.some /\ last.fault = "none")
        => LET value == Stored(props, root_window_id, AtomOf("BlurMode")) IN
           IF value = <<>> THEN IsOkNone(last.res)
           ELSE CASE Head(value) = 0 -> IsOkSome(last.res, "Off")
                  [] Head(value) = 1 -> IsOkSome(last.res, "Cond")
                  [] Head(value) = 2 -> IsOkSome(last.res, "Always")
                  [] OTHER -> IsOkNone(last.res)

\* get_blur_mode() has returned Ok(none) for a stored value of 3
C21_Witness ==
    /\ last.op = "get_blur_mode" /\ last.fault = "none" /\ conn.some
    /\ Stored(props, root_window_id, AtomOf("BlurMode")) = <<3>>
    /\ IsOkNone(last.res)

(***************************************************************************)
(* Claims on the effect of the Primary write operations (Spec).            *)
(***************************************************************************)
\* the (window, key) each write operation of Primary is documented to
\* address, given the arguments of the call
FacadeRow(op, args) ==
    CASE op = "set_main_app"            -> <<args[1], "SteamGame">>
      [] op = "set_input_focus"         -> <<args[1], "SteamInputFocus">>
      [] op = "set_overlay"             -> <<args[1], "SteamOverlay">>
      [] op = "set_notification"        -> <<args[1], "SteamNotification">>
      [] op = "set_external_overlay"    -> <<args[1], "ExternalOverlay">>
      [] op = "set_fps_limit"           -> <<RootWindow, "FPSLimit">>
      [] op = "set_blur_mode"           -> <<RootWindow, "BlurMode">>
      [] op = "set_blur_radius"         -> <<RootWindow, "BlurRadius">>
      [] op = "set_allow_tearing"       -> <<RootWindow, "AllowTearing">>
      [] op = "set_baselayer_window"    -> <<RootWindow, "BaselayerWindow">>
      [] op = "remove_baselayer_window" -> <<RootWindow, "BaselayerWindow">>
      [] op = "request_screenshot"      -> <<RootWindow, "RequestScreenshot">>

FacadeWrites ==
    {"set_main_app", "set_input_focus", "set_overlay", "set_notification",
     "set_external_overlay", "set_fps_limit", "set_blur_mode", "set_blur_radius",
     "set_allow_tearing", "set_baselayer_window", "remove_baselayer_window",
     "request_screenshot"}

\* C22: a write operation of Primary changes at most the one property of
\* its row; every other property of every window is the same after the
\* call as before it (so set_blur_mode leaves GAMESCOPE_FPS_LIMIT alone and
\* set_fps_limit leaves GAMESCOPE_BLUR_MODE alone).
C22_WritesOnlyOwnRow ==
    [][ last'.op \in FacadeWrites
          => LET row == FacadeRow(last'.op, last'.args) IN
             \A x \in (DOMAIN props) \cup (DOMAIN props') :
                x # <<row[1], AtomOf(row[2])>>
                   => /\ x \in DOMAIN props
                      /\ x \in DOMAIN props'
                      /\ props'[x] = props[x] ]_vars

(***************************************************************************)
(* Claims on the atom keys (Spec).                                         *)
(***************************************************************************)
\* the rows of the Display table that belong to a key
RowsOf(key) == {i \in 1..Len(GamescopeAtomTable) : GamescopeAtomTable[i][1] = key}

\* every key has one identifier, and two keys never share an identifier or
\* the server atom it is interned as
DistinctIdentifiers ==
    /\ \A k \in GamescopeAtom :
          /\ Cardinality(RowsOf(k)) = 1
          /\ \A i \in RowsOf(k) : to_string(k) = GamescopeAtomTable[i][2]
    /\ to_string("FocusableWindows") = "GAMESCOPE_FOCUSABLE_WINDOWS"
    /\ \A k1, k2 \in GamescopeAtom :
          k1 # k2 => /\ to_string(k1) # to_string(k2)
                     /\ srv_intern_atom(to_string(k1)) # srv_intern_atom(to_string(k2))

\* C23: every GamescopeAtom has exactly one identifier and distinct keys
\* have distinct identifiers, so a set_xprop or remove_xprop on one key of
\* a window leaves the property of every other key of that window as it
\* was.
C23_DistinctIdentifiers ==
    /\ []DistinctIdentifiers
    /\ [][ last'.op \in {"set_xprop", "remove_xprop"}
             => \A k \in GamescopeAtom \ {last'.args[2]} :
                   LET x == <<last'.args[1], srv_intern_atom(to_string(k))>> IN
                   /\ (x \in DOMAIN props) <=> (x \in DOMAIN props')
                   /\ (x \in DOMAIN props) => props'[x] = props[x] ]_vars

\* a set_xprop of GAMESCOPECTRL_BASELAYER_WINDOW has succeeded on the root
\* window while GAMESCOPE_FPS_LIMIT holds another value there
C23_Witness ==
    /\ last.op = "set_xprop" /\ IsOk(last.res)
    /\ last.args[2] = "BaselayerWindow"
    /\ Stored(props, RootWindow, srv_intern_atom(to_string("BaselayerWindow"))) = <<AppWindow>>
    /\ Stored(props, RootWindow, srv_intern_atom(to_string("FPSLimit"))) = <<1>>

(***************************************************************************)
(* Claims on the thread's own connection (SpecWatchRead).                  *)
(***************************************************************************)
\* s is an initial part of t
IsPrefix(s, t) == Len(s) <= Len(t) /\ SubSeq(t, 1, Len(s)) = s

\* a call returns in this step (the steps of the thread leave last alone)
CallReturns ==
    \/ last'.op # last.op
    \/ last'.args # last.args
    \/ last'.fault # last.fault
    \/ last'.res.tag # last.res.tag
    \/ last'.notify # last.notify

\* C24: the listening thread has its own connection.  A step that changes
\* the session's connection or root window (a connect, also a repeated
\* one) leaves the thread and its channel as they were; a step that starts
\* or advances the thread leaves the session's connection and root window
\* as they were; a property read or write of the session leaves the
\* thread's position, its connection and the channel as they were and only
\* adds events behind those already waiting; and while the thread runs, the
\* items delivered and still to be delivered are the changes in order.
C24_OwnConnection ==
    /\ [](Running => Delivered \o Pending = watch.log)
    /\ [][ /\ (conn' # conn \/ root_window_id' # root_window_id \/ open' # open)
               => watch' = watch
           /\ (watch' # watch)
               => (conn' = conn /\ root_window_id' = root_window_id /\ open' = open)
           /\ (last'.op \in {"connect", "get_xprop", "set_xprop", "remove_xprop"}
                 /\ (CallReturns \/ watch'.log # watch.log))
               => /\ watch'.pc = watch.pc
                  /\ watch'.connected = watch.connected
                  /\ watch'.event = watch.event
                  /\ watch'.rx = watch.rx
                  /\ watch'.chan = watch.chan
                  /\ watch'.recvd = watch.recvd
                  /\ IsPrefix(watch.queue, watch'.queue)
                  /\ IsPrefix(watch.log, watch'.log) ]_vars

\* the session has connected a second time while the thread was running
\* with a change already observed, and the thread still runs
C24_Witness ==
    /\ last.op = "connect" /\ IsOk(last.res)
    /\ conn.some /\ conn.val = 2
    /\ Running
    /\ watch.log # <<>>

(***************************************************************************)
(* Claims on the session's connection state (Spec, SpecProps).             *)
(***************************************************************************)
\* C25: in every state a session without a connection has root window 0;
\* the connection and the root window change only in a connect that
\* returns Ok, which sets both; and no step takes the connection away, so
\* a session that has connected stays connected.
C25_ConnectedStaysConnected ==
    /\ [](~conn.some => root_window_id = 0)
    /\ [][ /\ conn.some => conn'.some
           /\ (conn' # conn \/ root_window_id' # root_window_id)
               => /\ last'.op = "connect" /\ IsOk(last'.res)
                  /\ conn'.some
                  /\ root_window_id' = RootWindow ]_vars

\* a write of Primary was made on the second connection of the session,
\* which is still in place with its root window
C25_Witness ==
    /\ last.op = "set_fps_limit" /\ IsOk(last.res)
    /\ conn.some /\ conn.val = 2
    /\ root_window_id = RootWindow

\* C26: a connect() that fails returns an error and leaves the session as
\* it was: the display name, the connection it held (none, or the one of
\* an earlier connect, still open) and the root window are unchanged, and
\* no other connection has been opened.
C26_FailedConnectKeepsSession ==
    [][ (last'.op = "connect" /\ ~IsOk(last'.res))
          => /\ IsErr(last'.res)
             /\ UNCHANGED <<name, conn, root_window_id, open, nextConn>> ]_vars

\* a connect has failed on a session that was connected, which keeps its
\* connection and root window
C26_Witness ==
    /\ last.op = "connect" /\ IsErr(last.res)
    /\ conn.some /\ conn.val \in open
    /\ root_window_id = RootWindow

====
